---- MODULE Spec2Model ----
(***************************************************************************)
(* Agent execution and delegation engine of almaze-api.                    *)
(*                                                                         *)
(*   agents/base.py     BaseAgent: the generic bounded agent loop          *)
(*   agents/compass.py  CompassAgent: classification, routing, aggregation *)
(*   tools/agent/assign_agent_to_task.py   the delegation dispatcher       *)
(*                                                                         *)
(* Texts are sequences of tokens: <<>> is the empty string "" and          *)
(* concatenation is \o.  An optional value is a sequence of length 0       *)
(* (Python None) or 1.                                                     *)
(***************************************************************************)
EXTENDS Integers, Sequences, FiniteSets, TLC

\* ------------------------------------------------------------------ bounds
MaxBudget == 3

\* cap of the step counter, above every budget, so that a loop that does
\* not stop is seen as one that passes MaxBudget + 1 steps
MaxSteps == MaxBudget + 3

\* words in a name given to the normalization
MaxWords == 3

\* lines in a text of the classifier
MaxLines == 3

\* calls of the dispatcher in one run
MaxDispatches == 2

\* max_iterations of an agent that does not set it (BaseAgent.__init__)
DefaultMaxIterations == 5

\* --------------------------------------------------------------- variables
VARIABLES
    pc,             \* position of the invocation of BaseAgent.process
    agent,          \* which agent class runs: "generic" or "compass"
    max_iterations, \* self.max_iterations
    input_text,     \* argument of process
    messages,       \* state['messages']
    iterations,     \* state['iterations']
    final_answer,   \* state['final_answer']  (None = <<>>)
    exc,            \* exception propagating out of graph.invoke (None = <<>>)
    result,         \* what process gave its caller
    steps,          \* executions of the step function in this invocation
    lastStep,       \* what the inference service did in the last step
    llmCalls,       \* calls of self.llm.invoke
    llmFails,       \* calls of self.llm.invoke that raised
    toolRequests,   \* function calls returned by the inference service
    toolExecs,      \* calls of tool.invoke
    summarized,     \* _generate_final_answer was called
    raw_name,       \* argument of CompassAgent._clean_agent_name
    cleaned,        \* _clean_agent_name(name)
    recleaned,      \* _clean_agent_name(_clean_agent_name(raw_name))
    classifier,     \* what the classifying inference call does
    parsed,         \* outcome of _parse_analysis on the classifier's text
    task_analysis,  \* outcome of _analyze_task
    frame,          \* names bound in the frame of CompassAgent._process_step
    stepExc,        \* exception caught by the except of that step
    classifications,\* calls of CompassAgent._analyze_task
    dispatches,     \* the calls of assign_agent_to_task, in order
    entryCalls,     \* the calls of agent entry points, in order
    delegation,     \* the running call of _delegate_to_agents (None = <<>>)
    toolsLoad,      \* the modules of the file tools can be imported
    stack,          \* the agent invocations running under the dispatcher
    calls,          \* the calls of the dispatcher that have returned
    instances,      \* agent instances constructed so far
    toolCalls,      \* tool calls the delegated agents were asked for
    active_sessions,\* app.active_sessions
    requests        \* the requests the host is handling

loopVars == <<pc, agent, max_iterations, input_text, messages, iterations,
              final_answer, exc, result, steps, lastStep, llmCalls, llmFails,
              toolRequests, toolExecs, summarized>>

normVars == <<raw_name, cleaned, recleaned>>

parseVars == <<classifier, parsed, task_analysis>>

compassVars == <<frame, stepExc, classifications>>

dispatchVars == <<dispatches, entryCalls, delegation>>

agentsVars == <<toolsLoad, stack, calls, instances, toolCalls>>

hostVars == <<active_sessions, requests>>

envVars == <<agentsVars, hostVars>>

vars == <<loopVars, normVars, parseVars, compassVars, dispatchVars, envVars>>

\* ------------------------------------------------------------------ values
None == <<>>
Some(x) == <<x>>

\* the tasks given to process
Tasks == {<<"task A">>, <<"task B">>}

\* str(e) of the exceptions the inference service or a tool raises
Errs == {<<>>, <<"timeout">>}

\* response.content of an inference call that returns text
LLMTexts == {<<>>, <<"llm text">>}

\* the tools of the generic agent (self.tools), by name
AgentTools == {"read_file", "write_to_file"}

\* the names the inference service may put in a function call
CallNames == AgentTools \cup {"no_such_tool"}

\* what tool.invoke returns
ToolResults == {<<"tool output">>}

\* what one call of self.llm.invoke does
LLMOutcomes ==
    [kind : {"text"}, content : LLMTexts, name : {""}, err : {None}]
    \cup [kind : {"call"}, content : {<<>>}, name : CallNames, err : {None}]
    \cup [kind : {"fail"}, content : {<<>>}, name : {""}, err : Errs]

\* what one call of tool.invoke does
ToolOutcomes ==
    [kind : {"ok"}, value : ToolResults, err : {None}]
    \cup [kind : {"raise"}, value : {<<>>}, err : Errs]

SystemMessage(c) == [role |-> "system", content |-> c, function_call |-> None]
HumanMessage(c) == [role |-> "human", content |-> c, function_call |-> None]
AIMessage(c) == [role |-> "ai", content |-> c, function_call |-> None]
AICall(name) == [role |-> "ai", content |-> <<>>, function_call |-> Some(name)]

SystemPrompt == <<"system prompt">>

\* ------------------------------------------------- agents/base.py, helpers
\* BaseAgent._execute_tool that labels what the tool returned
execute_tool_labelled(tools, name, tool) ==
    IF name \in tools
    THEN IF tool.kind = "ok"
         THEN <<"Result: ">> \o tool.value
         ELSE <<"Error executing tool: ">> \o tool.err
    ELSE <<"Tool ", name, " not found">>

\* BaseAgent._execute_tool
execute_tool(tools, name, tool) ==
    IF name \in tools
    THEN IF tool.kind = "ok"
         THEN tool.value
         ELSE <<"Error executing tool: ">> \o tool.err
    ELSE <<"Tool ", name, " not found">>

\* tool.invoke is reached by _execute_tool
tool_invoked(tools, name) == name \in tools

\* BaseAgent._generate_final_answer
generate_final_answer(llm) ==
    IF llm.kind = "fail"
    THEN <<"Failed to generate final answer: ">> \o llm.err
    ELSE llm.content

\* the error text of the except branch of BaseAgent._process_step
step_error_msg(err) == <<"Error occurred: ">> \o err

\* BaseAgent._process_step with an error text that lacks its literal prefix
process_step_bare_error(st, max, tools, llm, tool) ==
    IF st.iterations >= max
    THEN [messages |-> st.messages,
          iterations |-> st.iterations + 1,
          final_answer |-> Some(generate_final_answer(llm))]
    ELSE IF st.messages = <<>>
    THEN st
    ELSE IF llm.kind = "fail"
    THEN [messages |-> Append(st.messages, SystemMessage(llm.err)),
          iterations |-> st.iterations + 1,
          final_answer |-> Some(llm.err)]
    ELSE IF llm.kind = "call"
    THEN [messages |-> st.messages \o
                       <<AICall(llm.name),
                         SystemMessage(execute_tool(tools, llm.name, tool))>>,
          iterations |-> st.iterations + 1,
          final_answer |-> st.final_answer]
    ELSE [messages |-> Append(st.messages, AIMessage(llm.content)),
          iterations |-> st.iterations + 1,
          final_answer |-> Some(llm.content)]

\* BaseAgent._process_step whose tool-call branch forgets to count the step
process_step_no_count(st, max, tools, llm, tool) ==
    IF st.iterations >= max
    THEN [messages |-> st.messages,
          iterations |-> st.iterations + 1,
          final_answer |-> Some(generate_final_answer(llm))]
    ELSE IF st.messages = <<>>
    THEN st
    ELSE IF llm.kind = "fail"
    THEN [messages |-> Append(st.messages,
                              SystemMessage(step_error_msg(llm.err))),
          iterations |-> st.iterations + 1,
          final_answer |-> Some(step_error_msg(llm.err))]
    ELSE IF llm.kind = "call"
    THEN [messages |-> st.messages \o
                       <<AICall(llm.name),
                         SystemMessage(execute_tool(tools, llm.name, tool))>>,
          iterations |-> st.iterations,
          final_answer |-> st.final_answer]
    ELSE [messages |-> Append(st.messages, AIMessage(llm.content)),
          iterations |-> st.iterations + 1,
          final_answer |-> Some(llm.content)]

\* BaseAgent._process_step whose except branch starts the count again
process_step_restart_count(st, max, tools, llm, tool) ==
    IF st.iterations >= max
    THEN [messages |-> st.messages,
          iterations |-> st.iterations + 1,
          final_answer |-> Some(generate_final_answer(llm))]
    ELSE IF st.messages = <<>>
    THEN st
    ELSE IF llm.kind = "fail"
    THEN [messages |-> Append(st.messages,
                              SystemMessage(step_error_msg(llm.err))),
          iterations |-> 0,
          final_answer |-> Some(step_error_msg(llm.err))]
    ELSE IF llm.kind = "call"
    THEN [messages |-> st.messages \o
                       <<AICall(llm.name),
                         SystemMessage(execute_tool(tools, llm.name, tool))>>,
          iterations |-> st.iterations + 1,
          final_answer |-> st.final_answer]
    ELSE [messages |-> Append(st.messages, AIMessage(llm.content)),
          iterations |-> st.iterations + 1,
          final_answer |-> Some(llm.content)]

\* BaseAgent._process_step whose except branch keeps the error message only
process_step_drop_history(st, max, tools, llm, tool) ==
    IF st.iterations >= max
    THEN [messages |-> st.messages,
          iterations |-> st.iterations + 1,
          final_answer |-> Some(generate_final_answer(llm))]
    ELSE IF st.messages = <<>>
    THEN st
    ELSE IF llm.kind = "fail"
    THEN [messages |-> <<SystemMessage(step_error_msg(llm.err))>>,
          iterations |-> st.iterations + 1,
          final_answer |-> Some(step_error_msg(llm.err))]
    ELSE IF llm.kind = "call"
    THEN [messages |-> st.messages \o
                       <<AICall(llm.name),
                         SystemMessage(execute_tool(tools, llm.name, tool))>>,
          iterations |-> st.iterations + 1,
          final_answer |-> st.final_answer]
    ELSE [messages |-> Append(st.messages, AIMessage(llm.content)),
          iterations |-> st.iterations + 1,
          final_answer |-> Some(llm.content)]

\* BaseAgent._process_step that does not count a step whose tool raised, so
\* that the call is asked for again
process_step_retry_uncounted(st, max, tools, llm, tool) ==
    IF st.iterations >= max
    THEN [messages |-> st.messages,
          iterations |-> st.iterations + 1,
          final_answer |-> Some(generate_final_answer(llm))]
    ELSE IF st.messages = <<>>
    THEN st
    ELSE IF llm.kind = "fail"
    THEN [messages |-> Append(st.messages,
                              SystemMessage(step_error_msg(llm.err))),
          iterations |-> st.iterations + 1,
          final_answer |-> Some(step_error_msg(llm.err))]
    ELSE IF llm.kind = "call"
    THEN [messages |-> st.messages \o
                       <<AICall(llm.name),
                         SystemMessage(execute_tool(tools, llm.name, tool))>>,
          iterations |-> IF llm.name \in tools /\ tool.kind = "raise"
                         THEN st.iterations ELSE st.iterations + 1,
          final_answer |-> st.final_answer]
    ELSE [messages |-> Append(st.messages, AIMessage(llm.content)),
          iterations |-> st.iterations + 1,
          final_answer |-> Some(llm.content)]

\* BaseAgent._process_step in which a call of a tool the agent does not
\* have is a failure of the step
process_step_unknown_tool_fatal(st, max, tools, llm, tool) ==
    IF st.iterations >= max
    THEN [messages |-> st.messages,
          iterations |-> st.iterations + 1,
          final_answer |-> Some(generate_final_answer(llm))]
    ELSE IF st.messages = <<>>
    THEN st
    ELSE IF llm.kind = "fail"
    THEN [messages |-> Append(st.messages,
                              SystemMessage(step_error_msg(llm.err))),
          iterations |-> st.iterations + 1,
          final_answer |-> Some(step_error_msg(llm.err))]
    ELSE IF llm.kind = "call" /\ llm.name \notin tools
    THEN [messages |-> Append(st.messages,
                SystemMessage(step_error_msg(<<"Tool ", llm.name, " not found">>))),
          iterations |-> st.iterations + 1,
          final_answer |-> Some(step_error_msg(<<"Tool ", llm.name, " not found">>))]
    ELSE IF llm.kind = "call"
    THEN [messages |-> st.messages \o
                       <<AICall(llm.name),
                         SystemMessage(execute_tool(tools, llm.name, tool))>>,
          iterations |-> st.iterations + 1,
          final_answer |-> st.final_answer]
    ELSE [messages |-> Append(st.messages, AIMessage(llm.content)),
          iterations |-> st.iterations + 1,
          final_answer |-> Some(llm.content)]

\* BaseAgent._process_step that records the result of a tool call without
\* the message of the request
process_step_result_only(st, max, tools, llm, tool) ==
    IF st.iterations >= max
    THEN [messages |-> st.messages,
          iterations |-> st.iterations + 1,
          final_answer |-> Some(generate_final_answer(llm))]
    ELSE IF st.messages = <<>>
    THEN st
    ELSE IF llm.kind = "fail"
    THEN [messages |-> Append(st.messages,
                              SystemMessage(step_error_msg(llm.err))),
          iterations |-> st.iterations + 1,
          final_answer |-> Some(step_error_msg(llm.err))]
    ELSE IF llm.kind = "call"
    THEN [messages |-> Append(st.messages,
                         SystemMessage(execute_tool(tools, llm.name, tool))),
          iterations |-> st.iterations + 1,
          final_answer |-> st.final_answer]
    ELSE [messages |-> Append(st.messages, AIMessage(llm.content)),
          iterations |-> st.iterations + 1,
          final_answer |-> Some(llm.content)]

\* BaseAgent._process_step that counts a step made on an empty conversation
process_step_counts_empty(st, max, tools, llm, tool) ==
    IF st.iterations >= max
    THEN [messages |-> st.messages,
          iterations |-> st.iterations + 1,
          final_answer |-> Some(generate_final_answer(llm))]
    ELSE IF st.messages = <<>>
    THEN [st EXCEPT !.iterations = @ + 1]
    ELSE IF llm.kind = "fail"
    THEN [messages |-> Append(st.messages,
                              SystemMessage(step_error_msg(llm.err))),
          iterations |-> st.iterations + 1,
          final_answer |-> Some(step_error_msg(llm.err))]
    ELSE IF llm.kind = "call"
    THEN [messages |-> st.messages \o
                       <<AICall(llm.name),
                         SystemMessage(execute_tool(tools, llm.name, tool))>>,
          iterations |-> st.iterations + 1,
          final_answer |-> st.final_answer]
    ELSE [messages |-> Append(st.messages, AIMessage(llm.content)),
          iterations |-> st.iterations + 1,
          final_answer |-> Some(llm.content)]

\* BaseAgent._process_step: the state the step returns.  llm is what the
\* one inference call of the step does, tool what tool.invoke does if it
\* is reached.
process_step(st, max, tools, llm, tool) ==
    IF st.iterations >= max
    THEN [messages |-> st.messages,
          iterations |-> st.iterations + 1,
          final_answer |-> Some(generate_final_answer(llm))]
    ELSE IF st.messages = <<>>
    THEN st
    ELSE IF llm.kind = "fail"
    THEN [messages |-> Append(st.messages,
                              SystemMessage(step_error_msg(llm.err))),
          iterations |-> st.iterations + 1,
          final_answer |-> Some(step_error_msg(llm.err))]
    ELSE IF llm.kind = "call"
    THEN [messages |-> st.messages \o
                       <<AICall(llm.name),
                         SystemMessage(execute_tool(tools, llm.name, tool))>>,
          iterations |-> st.iterations + 1,
          final_answer |-> st.final_answer]
    ELSE [messages |-> Append(st.messages, AIMessage(llm.content)),
          iterations |-> st.iterations + 1,
          final_answer |-> Some(llm.content)]

\* the step takes the summarization branch
step_summarizes(st, max) == st.iterations >= max

\* the step reaches self.llm.invoke
step_calls_llm(st, max) == st.iterations >= max \/ st.messages # <<>>

\* BaseAgent._should_continue that looks at the budget only
should_continue_budget_only(st, max) == ~(st.iterations >= max)

\* BaseAgent._should_continue: TRUE for "continue", FALSE for END
should_continue(st, max) ==
    ~(st.final_answer # None \/ st.iterations >= max)

\* BaseAgent.process, the initial state
initial_state(task) ==
    [messages |-> <<SystemMessage(SystemPrompt), HumanMessage(task)>>,
     iterations |-> 0,
     final_answer |-> None]

\* Python truth of Optional[str]: None and "" are false
truthy(opt) == opt # None /\ opt[1] # <<>>

\* the outcome of a Python call: it returns value, or raises exc
Returns(v) == [exc |-> None, value |-> v]
Raises(e) == [exc |-> Some(e), value |-> <<>>]

\* BaseAgent.process that does not fall back on the last message
process_no_last_message(st, e) ==
    IF e # None
    THEN Returns(<<"Error processing request: ">> \o e[1])
    ELSE IF truthy(st.final_answer)
    THEN Returns(st.final_answer[1])
    ELSE Returns(<<"No response generated">>)

\* BaseAgent.process, from the final state of graph.invoke (or the
\* exception e it raised) to the outcome of process
process(st, e) ==
    IF e # None
    THEN Returns(<<"Error processing request: ">> \o e[1])
    ELSE IF truthy(st.final_answer)
    THEN Returns(st.final_answer[1])
    ELSE IF st.messages # <<>>
    THEN Returns(st.messages[Len(st.messages)].content)
    ELSE Returns(<<"No response generated">>)

state == [messages |-> messages, iterations |-> iterations,
          final_answer |-> final_answer]

\* ------------------------------------------------ Python strings, by character
\* A str of the classifier's text is a sequence of one-character strings.
Whitespace == {" ", "\n", "\t"}
Digits == {"0", "1", "2", "3", "4", "5", "6", "7", "8", "9"}

UpperCase == <<"A", "B", "C", "D", "E", "F", "G", "H", "I", "J", "K", "L", "M",
               "N", "O", "P", "Q", "R", "S", "T", "U", "V", "W", "X", "Y", "Z">>
LowerCase == <<"a", "b", "c", "d", "e", "f", "g", "h", "i", "j", "k", "l", "m",
               "n", "o", "p", "q", "r", "s", "t", "u", "v", "w", "x", "y", "z">>

\* str.lower
LowerChar(c) ==
    IF \E i \in 1..26 : UpperCase[i] = c
    THEN LowerCase[CHOOSE i \in 1..26 : UpperCase[i] = c]
    ELSE c
Lower(s) == [i \in 1..Len(s) |-> LowerChar(s[i])]

\* the index of the first character of s outside set (Len(s)+1 if none)
FirstOutside(s, set) ==
    IF \E i \in 1..Len(s) : s[i] \notin set
    THEN CHOOSE i \in 1..Len(s) :
            s[i] \notin set /\ \A j \in 1..(i-1) : s[j] \in set
    ELSE Len(s) + 1

\* the index of the last character of s outside set (0 if none)
LastOutside(s, set) ==
    IF \E i \in 1..Len(s) : s[i] \notin set
    THEN CHOOSE i \in 1..Len(s) :
            s[i] \notin set /\ \A j \in (i+1)..Len(s) : s[j] \in set
    ELSE 0

\* re.sub(r'^[<set>]+', '', s)
DropLeading(s, set) == SubSeq(s, FirstOutside(s, set), Len(s))

\* str.strip
Strip(s) == SubSeq(s, FirstOutside(s, Whitespace), LastOutside(s, Whitespace))

\* sub in s
Contains(s, sub) ==
    \E i \in 0..(Len(s) - Len(sub)) : SubSeq(s, i + 1, i + Len(sub)) = sub

\* the position of the k-th occurrence of sep in s; 0 for k = 0 and
\* Len(s)+1 past the last occurrence
SepPos(s, sep, k) ==
    LET seps == {i \in 1..Len(s) : s[i] = sep}
    IN IF k = 0 THEN 0
       ELSE IF k > Cardinality(seps) THEN Len(s) + 1
       ELSE CHOOSE i \in seps : Cardinality({j \in seps : j < i}) = k - 1

\* s.split(sep), sep one character: always at least one part
Split(s, sep) ==
    [k \in 1..(Cardinality({i \in 1..Len(s) : s[i] = sep}) + 1) |->
        SubSeq(s, SepPos(s, sep, k - 1) + 1, SepPos(s, sep, k) - 1)]

\* sep.join(list)
RECURSIVE Join(_, _)
Join(list, sep) ==
    IF list = <<>> THEN <<>>
    ELSE IF Len(list) = 1 THEN list[1]
    ELSE list[1] \o <<sep>> \o Join(Tail(list), sep)

\* ''.join(list)
RECURSIVE Concat(_)
Concat(list) == IF list = <<>> THEN <<>> ELSE list[1] \o Concat(Tail(list))

\* ------------------------------------------------- agents/compass.py, helpers
tool_smith == <<"t", "o", "o", "l", "_", "s", "m", "i", "t", "h">>
architect == <<"a", "r", "c", "h", "i", "t", "e", "c", "t">>
scout == <<"s", "c", "o", "u", "t">>
techsage == <<"t", "e", "c", "h", "s", "a", "g", "e">>
compass == <<"c", "o", "m", "p", "a", "s", "s">>
direct == <<"d", "i", "r", "e", "c", "t">>
none == <<"n", "o", "n", "e">>

\* AGENT_DESCRIPTIONS.keys(), in the order of the dict
AGENT_DESCRIPTIONS == <<tool_smith, architect, scout, techsage>>

AgentIdentities == {AGENT_DESCRIPTIONS[i] : i \in 1..Len(AGENT_DESCRIPTIONS)}

\* CompassAgent._clean_agent_name that gives back an unmatched name as it is
clean_agent_name_passthrough(name) ==
    LET cleaned_name == Lower(Strip(DropLeading(name,
                                    Digits \cup Whitespace \cup {"."})))
        hits == {i \in 1..Len(AGENT_DESCRIPTIONS) :
                    Contains(cleaned_name, AGENT_DESCRIPTIONS[i])}
    IN IF hits # {}
       THEN AGENT_DESCRIPTIONS[CHOOSE i \in hits : \A j \in hits : i <= j]
       ELSE cleaned_name

\* CompassAgent._clean_agent_name
clean_agent_name(name) ==
    LET cleaned_name == Lower(Strip(DropLeading(name,
                                    Digits \cup Whitespace \cup {"."})))
        hits == {i \in 1..Len(AGENT_DESCRIPTIONS) :
                    Contains(cleaned_name, AGENT_DESCRIPTIONS[i])}
    IN IF hits # {}
       THEN AGENT_DESCRIPTIONS[CHOOSE i \in hits : \A j \in hits : i <= j]
       ELSE direct

\* the dict of the except branch of CompassAgent._parse_analysis
degraded_analysis ==
    [primary_agent |-> direct,
     reason |-> <<"Error in analysis">>,
     additional_agents |-> <<>>,
     task_breakdown |-> <<>>]

\* the candidates for the additional agents: the third line, split
additional_candidates(lines) ==
    IF Len(lines) > 2 /\ Contains(lines[3], <<":">>)
    THEN Split(Split(lines[3], ":")[2], ",")
    ELSE IF Len(lines) > 2 THEN Split(lines[3], ",")
    ELSE <<>>

\* the list comprehension over the candidates: empty names and 'none' are
\* left out, the others are normalized
RECURSIVE additional_agents_of(_)
additional_agents_of(cands) ==
    IF cands = <<>> THEN <<>>
    ELSE (IF Strip(cands[1]) # <<>> /\ Lower(Strip(cands[1])) # none
          THEN <<clean_agent_name(Strip(cands[1]))>>
          ELSE <<>>)
         \o additional_agents_of(Tail(cands))

\* the try block of CompassAgent._parse_analysis: an index [1] into a
\* split that has one part raises IndexError
parse_analysis_body(text) ==
    LET lines == Split(text, "\n")
    IN IF Len(Split(lines[1], ":")) < 2
       THEN Raises(<<"list index out of range">>)
       ELSE IF Len(lines) > 1 /\ Len(Split(lines[2], ":")) < 2
       THEN Raises(<<"list index out of range">>)
       ELSE Returns(
            [primary_agent |-> clean_agent_name(Strip(Split(lines[1], ":")[2])),
             reason |-> IF Len(lines) > 1
                        THEN Strip(Split(lines[2], ":")[2]) ELSE <<>>,
             additional_agents |-> additional_agents_of(
                                        additional_candidates(lines)),
             task_breakdown |-> IF Len(lines) > 3
                                THEN SubSeq(lines, 4, Len(lines)) ELSE <<>>])

\* CompassAgent._parse_analysis that reads the whole line when the line has
\* no colon (split(':')[-1] in place of split(':')[1])
parse_analysis_last_part(text) ==
    LET lines == Split(text, "\n")
        last(l) == Split(l, ":")[Len(Split(l, ":"))]
    IN Returns(
            [primary_agent |-> clean_agent_name(Strip(last(lines[1]))),
             reason |-> IF Len(lines) > 1 THEN Strip(last(lines[2])) ELSE <<>>,
             additional_agents |-> additional_agents_of(
                                        additional_candidates(lines)),
             task_breakdown |-> IF Len(lines) > 3
                                THEN SubSeq(lines, 4, Len(lines)) ELSE <<>>])

\* CompassAgent._parse_analysis: the outcome of the call
parse_analysis(text) ==
    IF parse_analysis_body(text).exc # None
    THEN Returns(degraded_analysis)
    ELSE parse_analysis_body(text)

\* CompassAgent._analyze_task without the rule for the researcher
analyze_task_no_rule(llm) ==
    IF llm.kind = "fail"
    THEN Raises(llm.err)
    ELSE parse_analysis(llm.content)

\* CompassAgent._analyze_task: llm is what the classifying inference call
\* does; its exception is not caught here
analyze_task(llm) ==
    IF llm.kind = "fail"
    THEN Raises(llm.err)
    ELSE LET analysis == parse_analysis(llm.content).value
         IN IF analysis.primary_agent = scout
            THEN Returns([analysis EXCEPT !.additional_agents = <<>>])
            ELSE Returns(analysis)

\* ----------------------------------------- the generic loop, BaseAgent.process
LoopStart(p, a, budgets) ==
    /\ pc = p
    /\ agent = a
    /\ max_iterations \in budgets
    /\ input_text = <<>>
    /\ messages = <<>>
    /\ iterations = 0
    /\ final_answer = None
    /\ exc = None
    /\ result = None
    /\ steps = 0
    /\ lastStep = "none"
    /\ llmCalls = 0
    /\ llmFails = 0
    /\ toolRequests = 0
    /\ toolExecs = 0
    /\ summarized = FALSE

\* process(input_text): build the initial state and enter the graph
Invoke(task) ==
    /\ pc = "idle"
    /\ pc' = "step"
    /\ input_text' = task
    /\ messages' = initial_state(task).messages
    /\ iterations' = initial_state(task).iterations
    /\ final_answer' = initial_state(task).final_answer
    /\ UNCHANGED <<agent, max_iterations, exc, result, steps, lastStep,
                   llmCalls, llmFails, toolRequests, toolExecs, summarized>>
    /\ UNCHANGED <<normVars, parseVars, compassVars, dispatchVars, envVars>>

\* one execution of the graph node "process" (BaseAgent._process_step)
Step(llm, tool) ==
    /\ pc = "step"
    /\ agent = "generic"
    /\ steps < MaxSteps
    /\ LET st == process_step(state, max_iterations, AgentTools, llm, tool)
           called == step_calls_llm(state, max_iterations)
           summ == step_summarizes(state, max_iterations)
           req == called /\ ~summ /\ llm.kind = "call"
       IN /\ messages' = st.messages
          /\ iterations' = st.iterations
          /\ final_answer' = st.final_answer
          /\ llmCalls' = llmCalls + (IF called THEN 1 ELSE 0)
          /\ llmFails' = llmFails + (IF called /\ llm.kind = "fail" THEN 1 ELSE 0)
          /\ toolRequests' = toolRequests + (IF req THEN 1 ELSE 0)
          /\ toolExecs' = toolExecs
                + (IF req /\ tool_invoked(AgentTools, llm.name) THEN 1 ELSE 0)
          /\ summarized' = (summarized \/ summ)
          /\ lastStep' = (IF ~called THEN "noop"
                          ELSE IF summ THEN "summary"
                          ELSE IF llm.kind = "fail" THEN "llm_fail"
                          ELSE IF llm.kind = "text" THEN "text"
                          ELSE IF ~tool_invoked(AgentTools, llm.name)
                               THEN "tool_missing"
                          ELSE IF tool.kind = "raise" THEN "tool_fail"
                          ELSE "tool_ok")
    /\ steps' = steps + 1
    /\ pc' = "check"
    /\ UNCHANGED <<agent, max_iterations, input_text, exc, result>>
    /\ UNCHANGED <<normVars, parseVars, compassVars, dispatchVars, envVars>>

\* the step in which the inference service answers with text
StepText == \E llm \in LLMOutcomes, tool \in ToolOutcomes :
    /\ llm.kind = "text"
    /\ tool = CHOOSE t \in ToolOutcomes : TRUE
    /\ Step(llm, tool)

\* the step in which the inference service asks for a tool
StepCall == \E llm \in LLMOutcomes, tool \in ToolOutcomes :
    /\ llm.kind = "call"
    /\ Step(llm, tool)

\* the step in which the inference call raises
StepFail == \E llm \in LLMOutcomes, tool \in ToolOutcomes :
    /\ llm.kind = "fail"
    /\ tool = CHOOSE t \in ToolOutcomes : TRUE
    /\ Step(llm, tool)

\* the conditional edge of the graph (BaseAgent._should_continue)
Check ==
    /\ pc = "check"
    /\ agent = "generic"
    /\ pc' = IF should_continue(state, max_iterations) THEN "step" ELSE "return"
    /\ UNCHANGED <<agent, max_iterations, input_text, messages, iterations,
                   final_answer, exc, result, steps, lastStep, llmCalls,
                   llmFails, toolRequests, toolExecs, summarized>>
    /\ UNCHANGED <<normVars, parseVars, compassVars, dispatchVars, envVars>>

\* graph.invoke has returned (or raised): process returns its text
Return ==
    /\ pc = "return"
    /\ result' = Some(process(state, exc))
    /\ pc' = "done"
    /\ UNCHANGED <<agent, max_iterations, input_text, messages, iterations,
                   final_answer, exc, steps, lastStep, llmCalls, llmFails,
                   toolRequests, toolExecs, summarized>>
    /\ UNCHANGED <<normVars, parseVars, compassVars, dispatchVars, envVars>>

LoopNext ==
    \/ \E task \in Tasks : Invoke(task)
    \/ StepText
    \/ StepCall
    \/ StepFail
    \/ Check
    \/ Return

\* no name is being normalized
NormIdle == raw_name = <<>> /\ cleaned = None /\ recleaned = None

\* no text is being classified
ParseIdle ==
    /\ classifier = [kind |-> "fail", content |-> <<>>, name |-> "", err |-> None]
    /\ parsed = None
    /\ task_analysis = None

\* no agent is running
LoopIdle == LoopStart("off", "none", {0})

\* the orchestrator step is not running
CompassIdle == frame = {} /\ stepExc = None /\ classifications = 0

\* no agent runs under the dispatcher and the host handles no request
EnvIdle ==
    /\ toolsLoad = TRUE
    /\ stack = <<>>
    /\ calls = <<>>
    /\ instances = 0
    /\ toolCalls = 0
    /\ active_sessions = {}
    /\ requests = <<>>

\* nothing was dispatched
DispatchIdle == dispatches = <<>> /\ entryCalls = <<>> /\ delegation = None

Init ==
    /\ EnvIdle
    /\ LoopStart("idle", "generic", 1..MaxBudget)
    /\ NormIdle
    /\ ParseIdle
    /\ CompassIdle
    /\ DispatchIdle
Next == LoopNext
Spec == Init /\ [][Next]_vars

\* the loop with the scheduling of sequential code: a call that can be
\* made is made
LiveSpec == Init /\ [][Next]_vars /\ WF_vars(Next)

\* ------------------------- the step function, called on a state of any kind
\* the conversations the graph node is entered with: none, or the one
\* process builds
StepConversations == {<<>>} \cup {initial_state(task).messages : task \in Tasks}

\* the graph is entered at its node with a state that need not come from
\* process
StepInit ==
    /\ EnvIdle
    /\ NormIdle
    /\ ParseIdle
    /\ CompassIdle
    /\ DispatchIdle
    /\ pc = "step"
    /\ agent = "generic"
    /\ max_iterations \in 1..MaxBudget
    /\ input_text = <<>>
    /\ messages \in StepConversations
    /\ iterations \in 0..MaxBudget
    /\ final_answer = None
    /\ exc = None
    /\ result = None
    /\ steps = 0
    /\ lastStep = "none"
    /\ llmCalls = 0
    /\ llmFails = 0
    /\ toolRequests = 0
    /\ toolExecs = 0
    /\ summarized = FALSE

StepNext ==
    \/ StepText
    \/ StepCall
    \/ StepFail
    \/ Check
    \/ Return

StepSpec == StepInit /\ [][StepNext]_vars

\* ------------------------------------ normalization of agent names (compass)
ScoutCapital == <<"S", "c", "o", "u", "t">>

\* the pieces the names given to the normalization are made of
NameWords == {<<"1">>, <<".">>, <<" ">>, <<"-">>, <<"x">>, scout, ScoutCapital,
              techsage, tool_smith, architect, direct}

NameInputs ==
    {Concat(ws) : ws \in UNION {[1..k -> NameWords] : k \in 0..MaxWords}}

NormInit ==
    /\ EnvIdle
    /\ LoopIdle
    /\ ParseIdle
    /\ CompassIdle
    /\ DispatchIdle
    /\ raw_name \in NameInputs
    /\ cleaned = None
    /\ recleaned = None

\* _clean_agent_name(raw_name)
Clean ==
    /\ cleaned = None
    /\ cleaned' = Some(clean_agent_name(raw_name))
    /\ UNCHANGED <<raw_name, recleaned, loopVars, parseVars, compassVars,
                   dispatchVars, envVars>>

\* _clean_agent_name applied to its own result
CleanAgain ==
    /\ cleaned # None
    /\ recleaned = None
    /\ recleaned' = Some(clean_agent_name(cleaned[1]))
    /\ UNCHANGED <<raw_name, cleaned, loopVars, parseVars, compassVars,
                   dispatchVars, envVars>>

NormNext == Clean \/ CleanAgain
NormSpec == NormInit /\ [][NormNext]_vars

\* ---------------------------------------- classification of a task (compass)
\* the lines the texts of the classifier are made of
ClassifierLines ==
    { <<>>,
      <<"x">>,
      techsage,
      <<"1", ".", " ", "x", ":", " ">> \o scout,
      <<":">> \o techsage,
      <<":", " ">> \o ScoutCapital,
      <<":", " ", "N", "o", "n", "e">>,
      <<":", "x">>,
      architect \o <<",", " ">> \o scout,
      <<":">> \o techsage \o <<",", "x", ",">> \o scout,
      <<"x", ":">> \o tool_smith \o <<":">> \o architect }

ClassifierTexts ==
    {Join(ls, "\n") : ls \in UNION {[1..k -> ClassifierLines] : k \in 1..MaxLines}}

ClassifierOutcomes ==
    [kind : {"text"}, content : ClassifierTexts, name : {""}, err : {None}]
    \cup [kind : {"fail"}, content : {<<>>}, name : {""}, err : Errs]

ParseInit ==
    /\ EnvIdle
    /\ LoopIdle
    /\ NormIdle
    /\ CompassIdle
    /\ DispatchIdle
    /\ classifier \in ClassifierOutcomes
    /\ parsed = None
    /\ task_analysis = None

\* _parse_analysis(response.content)
Parse ==
    /\ classifier.kind = "text"
    /\ parsed = None
    /\ parsed' = Some(parse_analysis(classifier.content))
    /\ UNCHANGED <<classifier, task_analysis, loopVars, normVars, compassVars,
                   dispatchVars, envVars>>

\* _analyze_task(task)
Analyze ==
    /\ task_analysis = None
    /\ task_analysis' = Some(analyze_task(classifier))
    /\ UNCHANGED <<classifier, parsed, loopVars, normVars, compassVars,
                   dispatchVars, envVars>>

ParseNext == Parse \/ Analyze
ParseSpec == ParseInit /\ [][ParseNext]_vars

\* ------------------------------------- tools/agent/assign_agent_to_task.py
ghost == <<"g", "h", "o", "s", "t">>
base == <<"b", "a", "s", "e">>

\* the modules of the package agents
AgentModules == {compass, base, scout, tool_smith, architect, techsage}

\* the modules of the package that define a function of their own name
EntryPoints == {compass, scout, tool_smith, architect, techsage}

\* the names given to the dispatcher
DispatchNames == AgentModules \cup {ghost, direct}

\* what an agent entry point returns
EntryTexts == {<<>>, <<"agent reply">>}

\* what one call of an agent entry point does
EntryOutcomes == {Returns(t) : t \in EntryTexts} \cup {Raises(e) : e \in Errs}

\* the call agent_func(...) is reached
entry_invoked(agent_name) ==
    agent_name \in AgentModules /\ agent_name \in EntryPoints

\* the arguments agent_func is called with
entry_args(agent_name, task) ==
    IF agent_name = compass THEN <<<<"internal_session">>, task>> ELSE <<task>>

\* assign_agent_to_task that lets the ImportError of an unknown module out
assign_agent_to_task_unguarded(agent_name, task, entry) ==
    IF agent_name \notin AgentModules
    THEN Raises(<<"No module named 'agents.">> \o agent_name \o <<"'">>)
    ELSE IF agent_name \notin EntryPoints
    THEN Returns(<<"Error: Agent function '">> \o agent_name
                 \o <<"' not found in module">>)
    ELSE IF entry.exc # None
    THEN Returns(<<"Error assigning task to agent ">> \o agent_name
                 \o <<": ">> \o entry.exc[1])
    ELSE entry

\* assign_agent_to_task that labels the text of the agent with its name
assign_agent_to_task_labelled(agent_name, task, entry) ==
    IF agent_name \notin AgentModules
    THEN Returns(<<"Error: Agent '">> \o agent_name \o <<"' not found">>)
    ELSE IF agent_name \notin EntryPoints
    THEN Returns(<<"Error: Agent function '">> \o agent_name
                 \o <<"' not found in module">>)
    ELSE IF entry.exc # None
    THEN Returns(<<"Error assigning task to agent ">> \o agent_name
                 \o <<": ">> \o entry.exc[1])
    ELSE Returns(<<"[">> \o agent_name \o <<"]: ">> \o entry.value)

\* assign_agent_to_task that lets the exception of an entry point out
assign_agent_to_task_reraising(agent_name, task, entry) ==
    IF agent_name \notin AgentModules
    THEN Returns(<<"Error: Agent '">> \o agent_name \o <<"' not found">>)
    ELSE IF agent_name \notin EntryPoints
    THEN Returns(<<"Error: Agent function '">> \o agent_name
                 \o <<"' not found in module">>)
    ELSE IF entry.exc # None
    THEN Raises(entry.exc[1])
    ELSE entry

\* assign_agent_to_task: the outcome of the call; entry is what the entry
\* point does if it is called
assign_agent_to_task(agent_name, task, entry) ==
    IF agent_name \notin AgentModules
    THEN Returns(<<"Error: Agent '">> \o agent_name \o <<"' not found">>)
    ELSE IF agent_name \notin EntryPoints
    THEN Returns(<<"Error: Agent function '">> \o agent_name
                 \o <<"' not found in module">>)
    ELSE IF entry.exc # None
    THEN Returns(<<"Error assigning task to agent ">> \o agent_name
                 \o <<": ">> \o entry.exc[1])
    ELSE entry

\* one call of an agent entry point, as it is logged: what it was called
\* with and what it did
entry_call(agent_name, task, entry) ==
    [entry |-> agent_name,
     args |-> entry_args(agent_name, task),
     outcome |-> entry]

\* one call of the dispatcher, as it is logged
dispatch_record(agent_name, task, entry) ==
    [agent_name |-> agent_name,
     task |-> task,
     invoked |-> entry_invoked(agent_name),
     entry |-> entry,
     outcome |-> assign_agent_to_task(agent_name, task, entry)]

\* the calls of entry points made in the dispatches records
entry_calls_of(records) ==
    LET called == SelectSeq(records, LAMBDA r : r.invoked)
    IN [k \in 1..Len(called) |->
            entry_call(called[k].agent_name, called[k].task, called[k].entry)]

DispatchInit ==
    /\ EnvIdle
    /\ LoopIdle
    /\ NormIdle
    /\ ParseIdle
    /\ CompassIdle
    /\ dispatches = <<>>
    /\ entryCalls = <<>>
    /\ delegation = None

\* assign_agent_to_task.invoke({"agent_name": ..., "task": ...})
Dispatch(agent_name, task, entry) ==
    /\ Len(dispatches) < MaxDispatches
    /\ dispatches' = Append(dispatches, dispatch_record(agent_name, task, entry))
    /\ entryCalls' = IF entry_invoked(agent_name)
                     THEN Append(entryCalls, entry_call(agent_name, task, entry))
                     ELSE entryCalls
    /\ UNCHANGED <<loopVars, normVars, parseVars, compassVars, delegation,
                   envVars>>

DispatchNext ==
    \E agent_name \in DispatchNames, task \in Tasks, entry \in EntryOutcomes :
        Dispatch(agent_name, task, entry)

DispatchSpec == DispatchInit /\ [][DispatchNext]_vars

\* ------------------------------------------ agents/compass.py, the routing
\* the value of AGENT_DESCRIPTIONS.get(agent, 'Complete the task')
description(agent_name) ==
    IF agent_name = tool_smith
    THEN <<"Creates new specialized agents for specific tasks">>
    ELSE IF agent_name = architect
    THEN <<"Creates and manages tools that other agents can use">>
    ELSE IF agent_name = scout
    THEN <<"Performs internet research and gathers information">>
    ELSE IF agent_name = techsage
    THEN <<"Handles code-related tasks and software development">>
    ELSE <<"Complete the task">>

\* the per-agent entries made of the dispatch records
agent_responses_of(records) ==
    [k \in 1..Len(records) |->
        [agent |-> records[k].agent_name,
         response |-> records[k].outcome.value]]

\* "\n".join of the "[agent]: response" lines
RECURSIVE previous_responses_str(_)
previous_responses_str(previous) ==
    IF previous = <<>> THEN <<>>
    ELSE <<"[">> \o previous[1].agent \o <<"]: ">> \o previous[1].response
         \o (IF Len(previous) > 1 THEN <<"\n">> ELSE <<>>)
         \o previous_responses_str(Tail(previous))

\* CompassAgent._create_subtask that leaves the earlier responses out
create_subtask_no_context(original_task, agent_name, previous) ==
    <<"Original task: ">> \o original_task
    \o <<"\n\nPrevious responses:\n">>
    \o <<"\n\nBased on the above, complete your part of the task as the ">>
    \o agent_name \o <<" agent.\nFocus on your specialization: ">>
    \o description(agent_name)

\* CompassAgent._create_subtask
create_subtask(original_task, agent_name, previous) ==
    <<"Original task: ">> \o original_task
    \o <<"\n\nPrevious responses:\n">> \o previous_responses_str(previous)
    \o <<"\n\nBased on the above, complete your part of the task as the ">>
    \o agent_name \o <<" agent.\nFocus on your specialization: ">>
    \o description(agent_name)

\* the loop over analysis['additional_agents'] of _delegate_to_agents;
\* records are the dispatches made so far, entries[k] is what the entry
\* point does in the k-th dispatch
RECURSIVE delegate_additional(_, _, _, _, _)
delegate_additional(agents, primary, task, records, entries) ==
    IF agents = <<>> THEN records
    ELSE IF agents[1] # primary
    THEN delegate_additional(Tail(agents), primary, task,
            Append(records,
                   dispatch_record(agents[1],
                        create_subtask(task, agents[1],
                                       agent_responses_of(records)),
                        entries[Len(records) + 1])),
            entries)
    ELSE delegate_additional(Tail(agents), primary, task, records, entries)

\* CompassAgent._delegate_to_agents: the dispatches it makes, in order
delegate_to_agents(an, task, entries) ==
    delegate_additional(an.additional_agents, an.primary_agent, task,
                        <<dispatch_record(an.primary_agent, task, entries[1])>>,
                        entries)

\* chr(10).join(responses)
RECURSIVE join_responses(_)
join_responses(responses) ==
    IF responses = <<>> THEN <<>>
    ELSE responses[1].response
         \o (IF Len(responses) > 1 THEN <<"\n">> ELSE <<>>)
         \o join_responses(Tail(responses))

\* CompassAgent._format_responses that shows the last response only
format_responses_last_only(responses, an) ==
    <<"Task Analysis:\nPrimary Agent: ">> \o an.primary_agent
    \o <<"\nReason: ">> \o an.reason
    \o <<"\n\nAgent Responses:\n">>
    \o (IF responses = <<>> THEN <<>>
        ELSE responses[Len(responses)].response)
    \o <<"\n\nSummary:\nI've coordinated the appropriate agents">>

\* CompassAgent._format_responses
format_responses(responses, an) ==
    <<"Task Analysis:\nPrimary Agent: ">> \o an.primary_agent
    \o <<"\nReason: ">> \o an.reason
    \o <<"\n\nAgent Responses:\n">> \o join_responses(responses)
    \o <<"\n\nSummary:\nI've coordinated the appropriate agents">>

\* json.dumps of the analysis dict
analysis_json(an) ==
    <<"{\"primary_agent\": \"">> \o an.primary_agent
    \o <<"\", \"reason\": \"">> \o an.reason
    \o <<"\", \"additional_agents\": [">> \o Join(an.additional_agents, ",")
    \o <<"], \"task_breakdown\": [">> \o Join(an.task_breakdown, ",")
    \o <<"]}">>

\* json.dumps of the list of per-agent entries
RECURSIVE agent_responses_json(_)
agent_responses_json(responses) ==
    IF responses = <<>> THEN <<>>
    ELSE <<"{\"agent\": \"">> \o responses[1].agent
         \o <<"\", \"response\": \"">> \o responses[1].response \o <<"\"}">>
         \o agent_responses_json(Tail(responses))

\* json.dumps(response_data)
response_json(task, an, response, responses) ==
    <<"{\"task\": \"">> \o task
    \o <<"\", \"analysis\": ">> \o analysis_json(an)
    \o <<", \"response\": \"">> \o response
    \o <<"\", \"agent_responses\": [">> \o agent_responses_json(responses)
    \o <<"], \"error\": null}">>

\* the fixed remediation suggestions of the error payload
Suggestions ==
    <<"Try rephrasing your request",
      "Break down the task into smaller steps",
      "Check the task requirements">>

\* json.dumps(error_response)
error_json(task, error_msg) ==
    <<"{\"task\": \"">> \o task
    \o <<"\", \"error\": \"">> \o error_msg
    \o <<"\", \"suggestions\": [">> \o Suggestions \o <<"]}">>

\* the names bound at module level in agents/compass.py
CompassGlobals ==
    {"List", "Any", "Dict", "Literal", "HumanMessage", "SystemMessage",
     "AIMessage", "BaseAgent", "AgentState", "list_available_agents",
     "assign_agent_to_task", "END", "json", "re", "AGENT_DESCRIPTIONS",
     "CompassAgent", "compass"}

\* the names bound in the frame of CompassAgent._process_step when its try
\* block is entered: the parameters and the assignment before the try
StepFrame == {"self", "state", "iterations"}

\* a name can be read in the frame fr
resolves(nm, fr) == nm \in fr \/ nm \in CompassGlobals

\* what a part of the step gives: the outcome of the call and the
\* dispatches it made
StepOutcome(out, records) ==
    [exc |-> out.exc, value |-> out.value, records |-> records]

\* the delegating branch of the try block, once the dispatches are made
compass_aggregate(st, task, an, records) ==
    StepOutcome(
        Returns([st EXCEPT
            !.messages = Append(@, AIMessage(
                response_json(task, an,
                    format_responses(agent_responses_of(records), an),
                    agent_responses_of(records)))),
            !.iterations = @ + 1]),
        records)

\* the try block from the analysis on: the direct branch or the delegating
\* branch; an is the outcome of _analyze_task
compass_route(st, task, an, reply, entries) ==
    IF an.exc # None
    THEN StepOutcome(Raises(an.exc[1]), <<>>)
    ELSE IF an.value.primary_agent = direct
    THEN IF reply.kind = "fail"
         THEN StepOutcome(Raises(reply.err), <<>>)
         ELSE StepOutcome(
                Returns([st EXCEPT
                    !.messages = Append(@, AIMessage(
                        response_json(task, an.value, reply.content,
                            <<[agent |-> compass,
                               response |-> reply.content]>>))),
                    !.iterations = @ + 1]),
                <<>>)
    ELSE compass_aggregate(st, task, an.value,
                           delegate_to_agents(an.value, task, entries))

\* the try block of CompassAgent._process_step: cls is what the
\* classifying inference call does, reply what the direct inference call
\* does, entries what the entry points do
compass_try(st, fr, cls, reply, entries) ==
    IF ~resolves("messages", fr)
    THEN StepOutcome(Raises(<<"name 'messages' is not defined">>), <<>>)
    ELSE IF st.messages = <<>>
    THEN StepOutcome(Returns(st), <<>>)
    ELSE compass_route(st, st.messages[Len(st.messages)].content,
                       analyze_task(cls), reply, entries)

\* the calls of _analyze_task the step makes
compass_classifications(st, fr) ==
    IF resolves("messages", fr) /\ st.messages # <<>> THEN 1 ELSE 0

\* the names bound when the except block runs: last_message is assigned by
\* the first statement of the try block
frame_at_except(fr) ==
    IF resolves("messages", fr) THEN fr \cup {"last_message"} ELSE fr

\* the except block of CompassAgent._process_step, entered with the
\* exception of the try block
compass_except(st, fr, body) ==
    IF "last_message" \notin frame_at_except(fr)
    THEN StepOutcome(
            Raises(<<"local variable 'last_message' referenced before assignment">>),
            body.records)
    ELSE StepOutcome(
            Returns([st EXCEPT
                !.messages = Append(@, SystemMessage(
                    error_json(IF st.messages # <<>>
                               THEN st.messages[Len(st.messages)].content
                               ELSE <<"No task">>,
                               <<"Error in processing: ">> \o body.exc[1]))),
                !.iterations = @ + 1]),
            body.records)

\* the step, given the outcome of its try block; caught is the exception
\* the except block was entered with
compass_finish(st, fr, body) ==
    [out |-> IF body.exc = None THEN body ELSE compass_except(st, fr, body),
     caught |-> body.exc]

\* CompassAgent._process_step: the outcome of the call, the dispatches made
\* and the exception caught
compass_process_step(st, fr, cls, reply, entries) ==
    compass_finish(st, fr, compass_try(st, fr, cls, reply, entries))

\* CompassAgent._should_continue: TRUE for "continue", FALSE for END
compass_should_continue(st, max) ==
    ~(\/ st.iterations >= max
      \/ st.messages # <<>> /\ st.messages[Len(st.messages)].function_call = None)

\* the entry points answer the k-th dispatch with e
SameEntries(e) == [k \in 1..(MaxLines + 2) |-> e]

CompassInit ==
    /\ EnvIdle
    /\ LoopStart("idle", "compass", {DefaultMaxIterations})
    /\ NormIdle
    /\ classifier \in ClassifierOutcomes
    /\ parsed = None
    /\ task_analysis = None
    /\ CompassIdle
    /\ DispatchIdle

\* compass(session_id, task): CompassAgent().process(task)
CompassInvoke ==
    /\ agent = "compass"
    /\ \E task \in Tasks : Invoke(task)

\* one execution of the graph node "process" (CompassAgent._process_step)
\* and, when the step returns, of the edge _should_continue
CompassStep(reply, entries) ==
    /\ pc = "step"
    /\ agent = "compass"
    /\ steps < MaxSteps
    /\ \E step \in {compass_process_step(state, StepFrame, classifier, reply,
                                         entries)} :
          /\ frame' = frame_at_except(StepFrame)
          /\ stepExc' = step.caught
          /\ classifications' = classifications
                                + compass_classifications(state, StepFrame)
          /\ dispatches' = dispatches \o step.out.records
          /\ entryCalls' = entryCalls \o entry_calls_of(step.out.records)
          /\ IF step.out.exc = None
             THEN /\ messages' = step.out.value.messages
                  /\ iterations' = step.out.value.iterations
                  /\ final_answer' = step.out.value.final_answer
                  /\ exc' = exc
                  /\ pc' = IF compass_should_continue(step.out.value,
                                                      max_iterations)
                           THEN "step" ELSE "return"
             ELSE /\ exc' = step.out.exc
                  /\ pc' = "return"
                  /\ UNCHANGED <<messages, iterations, final_answer>>
    /\ steps' = steps + 1
    /\ UNCHANGED <<agent, max_iterations, input_text, result, lastStep,
                   llmCalls, llmFails, toolRequests, toolExecs, summarized>>
    /\ UNCHANGED <<normVars, parseVars, delegation, envVars>>

CompassNext ==
    \/ CompassInvoke
    \/ \E reply \in LLMOutcomes, e \in EntryOutcomes :
            CompassStep(reply, SameEntries(e))
    \/ Return

CompassSpec == CompassInit /\ [][CompassNext]_vars

\* ------------------------------- _delegate_to_agents, one dispatch at a time
\* additional agents in an analysis given to the delegation
MaxAdditional == 2

\* the lists of additional agents _parse_analysis can give: every name is
\* normalized
AdditionalLists ==
    UNION {[1..k -> AgentIdentities \cup {direct}] : k \in 0..MaxAdditional}

\* the analyses the delegating branch is entered with: the primary agent is
\* an identity, and scout has no additional agents (_analyze_task)
DelegatedAnalyses ==
    {an \in [primary_agent : AgentIdentities,
             reason : {<<"best fit">>},
             additional_agents : AdditionalLists,
             task_breakdown : {<<>>}] :
        an.primary_agent = scout => an.additional_agents = <<>>}

\* the call _delegate_to_agents(analysis, task) is entered
delegation_of(an, task) ==
    [analysis |-> an, task |-> task, cursor |-> 0, returned |-> None]

DelegateInit ==
    /\ EnvIdle
    /\ LoopIdle
    /\ NormIdle
    /\ ParseIdle
    /\ CompassIdle
    /\ dispatches = <<>>
    /\ entryCalls = <<>>
    /\ \E an \in DelegatedAnalyses, task \in Tasks :
            delegation = Some(delegation_of(an, task))

\* a dispatch made by _delegate_to_agents; the loop moves to the next agent
DelegateDispatch(agent_name, task, entry) ==
    /\ dispatches' = Append(dispatches, dispatch_record(agent_name, task, entry))
    /\ entryCalls' = IF entry_invoked(agent_name)
                     THEN Append(entryCalls, entry_call(agent_name, task, entry))
                     ELSE entryCalls
    /\ delegation' = Some([delegation[1] EXCEPT !.cursor = @ + 1])
    /\ UNCHANGED <<loopVars, normVars, parseVars, compassVars, envVars>>

\* the primary agent is given the task
DelegatePrimary(entry) ==
    /\ delegation # None
    /\ delegation[1].cursor = 0
    /\ DelegateDispatch(delegation[1].analysis.primary_agent,
                        delegation[1].task, entry)

\* the agent the loop over the additional agents stands at
delegation_agent == delegation[1].analysis.additional_agents[delegation[1].cursor]

\* the loop is at an additional agent
delegation_in_loop ==
    /\ delegation # None
    /\ delegation[1].cursor \in 1..Len(delegation[1].analysis.additional_agents)

\* an additional agent that is not the primary agent is given its sub-task
DelegateAdditional(entry) ==
    /\ delegation_in_loop
    /\ delegation_agent # delegation[1].analysis.primary_agent
    /\ DelegateDispatch(delegation_agent,
                        create_subtask(delegation[1].task, delegation_agent,
                                       agent_responses_of(dispatches)),
                        entry)

\* an additional agent that is the primary agent is passed over
DelegateSkip ==
    /\ delegation_in_loop
    /\ delegation_agent = delegation[1].analysis.primary_agent
    /\ delegation' = Some([delegation[1] EXCEPT !.cursor = @ + 1])
    /\ UNCHANGED <<loopVars, normVars, parseVars, compassVars, dispatches,
                   entryCalls, envVars>>

\* return agent_responses
DelegateReturn ==
    /\ delegation # None
    /\ delegation[1].cursor = Len(delegation[1].analysis.additional_agents) + 1
    /\ delegation[1].returned = None
    /\ delegation' = Some([delegation[1] EXCEPT
                             !.returned = Some(agent_responses_of(dispatches))])
    /\ UNCHANGED <<loopVars, normVars, parseVars, compassVars, dispatches,
                   entryCalls, envVars>>

DelegateNext ==
    \/ \E entry \in EntryOutcomes : DelegatePrimary(entry)
    \/ \E entry \in EntryOutcomes : DelegateAdditional(entry)
    \/ DelegateSkip
    \/ DelegateReturn

DelegateSpec == DelegateInit /\ [][DelegateNext]_vars

\* --------------------------------------- the agent entry points, agents/*.py
\* calls of the dispatcher in one run, nested calls included
MaxCalls == 2

\* tool calls, other than delegations, the inference service asks the
\* delegated agents for in one run
MaxToolCalls == 1

\* the agent modules that import the file tools (tools/file/*.py)
ImportsFileTools == {tool_smith, techsage}

\* str(e) of the error raised when a file tool module cannot be loaded
FileToolsError == <<"unexpected indent (write_to_file.py, line 7)">>

\* __import__(f"agents.{agent_name}") raises an error that is not an
\* ImportError: load tells whether the file tool modules can be loaded
import_fails(agent_name, load) ==
    agent_name \in AgentModules /\ agent_name \in ImportsFileTools /\ ~load

\* os.listdir of the directory tools: three sub-directories with modules
ToolsDir ==
    <<[kind |-> "dir", pyfiles |-> 2],
      [kind |-> "dir", pyfiles |-> 4],
      [kind |-> "dir", pyfiles |-> 2]>>

\* utils.load_module_functions: the local `module` is bound only by the
\* branch for a file; the branch for a directory reads it
RECURSIVE load_module_functions(_, _)
load_module_functions(items, module_bound) ==
    IF items = <<>> THEN Returns(<<"tool functions">>)
    ELSE IF items[1].kind = "file"
    THEN load_module_functions(Tail(items), TRUE)
    ELSE IF items[1].pyfiles > 0 /\ ~module_bound
    THEN Raises(<<"local variable 'module' referenced before assignment">>)
    ELSE load_module_functions(Tail(items), module_bound)

\* the constructor of the agent class: ArchitectAgent.__init__ calls
\* all_tool_functions() before BaseAgent.__init__
constructor(agent_name) ==
    IF agent_name = architect
    THEN load_module_functions(ToolsDir, FALSE)
    ELSE Returns(<<>>)

\* the names of self.tools
tools_of(agent_name) ==
    IF agent_name = tool_smith
    THEN {"write_to_file", "read_file", "delete_file", "overwrite_file",
          "assign_agent_to_task"}
    ELSE IF agent_name = techsage
    THEN {"write_to_file", "assign_agent_to_task"}
    ELSE IF agent_name = compass
    THEN {"list_available_agents", "assign_agent_to_task"}
    ELSE IF agent_name = scout
    THEN {"duck_duck_go_web_search"}
    ELSE {}

\* self.max_iterations
max_iterations_of(agent_name) ==
    IF agent_name \in {scout, techsage} THEN 1 ELSE DefaultMaxIterations

\* the agents that run BaseAgent._process_step as it is
UsesBaseStep == {tool_smith, architect}

\* self.system_prompt
system_prompt(agent_name) == <<"You are ">> \o agent_name

\* an initial state that goes on from the conversation of the last call
agent_initial_state_shared(agent_name, task) ==
    IF calls = <<>> \/ calls[Len(calls)].conversation = <<>>
    THEN [initial_state(task) EXCEPT
            !.messages[1] = SystemMessage(system_prompt(agent_name))]
    ELSE [initial_state(task) EXCEPT
            !.messages = calls[Len(calls)].conversation
                            \o <<HumanMessage(task)>>]

\* the initial state process builds for the agent
agent_initial_state(agent_name, task) ==
    [initial_state(task) EXCEPT
        !.messages[1] = SystemMessage(system_prompt(agent_name))]

\* a value with its Python type
Typed(out, type) == [exc |-> out.exc, value |-> out.value, type |-> type]

\* no entry point was called
NoEntry == Typed(Returns(<<>>), "none")

\* the type of what the dispatcher returns: the texts it builds are str
result_type(r) == IF "type" \in DOMAIN r THEN r.type ELSE "str"

\* json.dumps of the payload of a single-step agent
status_json(status, query, body) ==
    <<"{\"status\": \"", status, "\", \"query\": \"">> \o query
    \o <<"\", \"timestamp\": \"<now>\", ">> \o body \o <<"}">>

\* what duck_duck_go_web_search.invoke does for scout
SearchOutcomes ==
    [kind : {"results", "no_info"}, err : {None}]
    \cup [kind : {"raise"}, err : {<<"timeout">>}]

\* messages[-1].content, or the text given for an empty conversation
last_content(st, otherwise) ==
    IF st.messages # <<>> THEN st.messages[Len(st.messages)].content
    ELSE otherwise

\* ScoutAgent._process_step
scout_process_step(st, search, llm) ==
    LET query == last_content(st, <<"No query provided">>)
        msg == IF search.kind = "raise"
               THEN SystemMessage(status_json("error", query,
                        <<"\"error\": \"">> \o search.err \o <<"\"">>))
               ELSE IF search.kind = "no_info"
               THEN AIMessage(status_json("no_results", query,
                        <<"\"error\": \"No information found\"">>))
               ELSE IF llm.kind = "fail"
               THEN SystemMessage(status_json("error", query,
                        <<"\"error\": \"">> \o llm.err \o <<"\"">>))
               ELSE AIMessage(status_json("success", query,
                        <<"\"message\": \"">> \o llm.content \o <<"\"">>))
    IN [st EXCEPT !.messages = Append(@, msg), !.iterations = 1]

\* the names bound at module level in agents/techsage.py
TechsageGlobals ==
    {"List", "Any", "Dict", "Literal", "Optional", "BaseMessage",
     "HumanMessage", "SystemMessage", "AIMessage", "END", "BaseAgent",
     "AgentState", "write_to_file", "assign_agent_to_task", "delete_file",
     "json", "re", "logging", "datetime", "logger", "TechSageAgent",
     "techsage"}

\* the names bound in the frame of TechSageAgent._process_step when the
\* implementation is asked for
TechsageFrame == {"self", "state", "messages", "task", "analysis"}

\* TechSageAgent._process_step: llm is what the inference call for the
\* implementation does
techsage_process_step(st, llm) ==
    LET task == last_content(st, <<"No task provided">>)
        msg == IF "implementation_prompt" \notin TechsageFrame \cup TechsageGlobals
               THEN AIMessage(status_json("error", task,
                        <<"\"error\": \"name 'implementation_prompt' is not defined\"">>))
               ELSE IF llm.kind = "fail"
               THEN AIMessage(status_json("error", task,
                        <<"\"error\": \"">> \o llm.err \o <<"\"">>))
               ELSE AIMessage(status_json("success", task,
                        <<"\"implementation\": \"">> \o llm.content \o <<"\"">>))
    IN [st EXCEPT !.messages = Append(@, msg), !.iterations = 1]

\* the files one implementation text may hold
MaxFiles == 2

\* the file names of the code blocks of an implementation text
FileNames == {<<"file", ToString(i), ".py">> : i \in 1..MaxFiles}

\* _extract_code_blocks(implementation.content).keys(), in the order of
\* the dict: no name twice
CodeBlocks ==
    {b \in UNION {[1..n -> FileNames] : n \in 0..MaxFiles} :
        \A i, j \in 1..Len(b) : i # j => b[i] # b[j]}

\* what the file tools do in one step of techsage: write_error and
\* delete_error are the file, if any, for which write_to_file.invoke and
\* delete_file.invoke raise
FileInputs ==
    [code_blocks : CodeBlocks,
     write_error : {None} \cup {Some(f) : f \in FileNames},
     delete_error : {None} \cup {Some(f) : f \in FileNames}]

\* an implementation text that holds no code block
NoFiles == [code_blocks |-> <<>>, write_error |-> None, delete_error |-> None]

\* a call of tool.invoke({"filepath": filepath, ...}) of a file tool
FileRequest(tool, filepath) == [tool |-> tool, filepath |-> filepath]

\* TechSageAgent._process_step: the calls of write_to_file.invoke and of
\* delete_file.invoke the step makes, in order.  The write loop goes
\* through all code blocks and keeps in files_created the files whose
\* write did not raise; the delete loop goes through files_created
techsage_file_requests(llm, io) ==
    LET code_blocks == IF llm.kind = "text" THEN io.code_blocks ELSE <<>>
        files_created ==
            SelectSeq(code_blocks, LAMBDA f : Some(f) # io.write_error)
    IN  IF "implementation_prompt" \notin TechsageFrame \cup TechsageGlobals
        THEN <<>>
        ELSE IF llm.kind = "fail"
        THEN <<>>
        ELSE [k \in 1..Len(code_blocks) |->
                 FileRequest("write_to_file", code_blocks[k])]
             \o [k \in 1..Len(files_created) |->
                 FileRequest("delete_file", files_created[k])]

\* what the entry point gives its caller when the agent's loop has ended
\* in state st, or with the exception e out of graph.invoke:
\* ArchitectAgent.process returns the state of the graph, BaseAgent.process
\* a text
entry_return(agent_name, st, e) ==
    IF agent_name = architect
    THEN IF e # None THEN Typed(Raises(e[1]), "none")
         ELSE Typed(Returns(<<"<AgentState>">>), "dict")
    ELSE Typed(process(st, e), "str")

\* what the entry point gives its caller when the constructor raises e:
\* only techsage catches it
entry_failure(agent_name, e) ==
    IF agent_name = techsage
    THEN Typed(Returns(<<"{\"status\": \"critical_error\", \"error\": \"">>
                       \o e \o <<"\"}">>), "str")
    ELSE Typed(Raises(e), "none")

\* assign_agent_to_task with the import of the module: the outcome
dispatcher_result(agent_name, task, load, entry) ==
    IF import_fails(agent_name, load)
    THEN Returns(<<"Error assigning task to agent ">> \o agent_name
                 \o <<": ">> \o FileToolsError)
    ELSE assign_agent_to_task(agent_name, task, entry)

\* the dispatch reaches agent.process: the module loads, has the entry
\* point, and the constructor returns
runs_loop(agent_name, load) ==
    /\ entry_invoked(agent_name)
    /\ ~import_fails(agent_name, load)
    /\ constructor(agent_name).exc = None

\* a call of the dispatcher that has returned
call_record(agent_name, task, depth, inst, called, entry, conversation, load) ==
    [agent_name |-> agent_name,
     task |-> task,
     depth |-> depth,
     inst |-> inst,
     called |-> called,
     entry |-> entry,
     conversation |-> conversation,
     result |-> dispatcher_result(agent_name, task, load, entry)]

\* a call of the dispatcher that returns without running an agent
failed_call(agent_name, task, depth, load) ==
    IF entry_invoked(agent_name) /\ ~import_fails(agent_name, load)
    THEN call_record(agent_name, task, depth, 0, TRUE,
                     entry_failure(agent_name, constructor(agent_name).exc[1]),
                     <<>>, load)
    ELSE call_record(agent_name, task, depth, 0, FALSE, NoEntry, <<>>, load)

\* an agent invocation: agent = XAgent(); agent.process(task)
Frame(agent_name, task, inst) ==
    [agent_name |-> agent_name,
     task |-> task,
     inst |-> inst,
     st |-> agent_initial_state(agent_name, task),
     exc |-> None,
     done |-> FALSE,
     pending |-> None,
     files |-> None]

\* the frame after a step of BaseAgent._process_step and the edge
\* _should_continue
after_base_step(fr, llm, tool) ==
    LET st == process_step(fr.st, max_iterations_of(fr.agent_name),
                           tools_of(fr.agent_name), llm, tool)
    IN [fr EXCEPT !.st = st,
                  !.pending = None,
                  !.done = ~should_continue(st, max_iterations_of(fr.agent_name))]

\* the frame after the step of a single-step agent that has the edge and
\* the budget of BaseAgent
after_single_step_base_edge(fr, st) ==
    [fr EXCEPT !.st = st, !.done = ~should_continue(st, DefaultMaxIterations)]

\* the frame after the one step of a single-step agent
after_single_step(fr, st) == [fr EXCEPT !.st = st, !.done = TRUE]

\* the function call by which the inference service delegates
DelegatingCall ==
    [kind |-> "call", content |-> <<>>, name |-> "assign_agent_to_task",
     err |-> None]

\* what tool.invoke gives when the tool returns value
tool_returns(value) == [kind |-> "ok", value |-> value, err |-> None]

\* the names the dispatcher is called with in this run
CalleeNames == DispatchNames

\* the sub-task the inference service writes when it delegates
SubTasks == {<<"sub-task">>}

\* what the inference service does for a delegated agent
AgentLLMOutcomes ==
    {l \in LLMOutcomes :
        /\ l.kind = "text" => l.content # <<>>
        /\ l.kind = "call" => l.name \in {"write_to_file", "no_such_tool"}
        /\ l.kind = "fail" => l.err # <<>>}

\* what a tool other than the dispatcher does for a delegated agent
AgentToolOutcomes == {t \in ToolOutcomes : t.kind = "raise" => t.err # <<>>}

AgentsInit ==
    /\ LoopIdle
    /\ NormIdle
    /\ ParseIdle
    /\ CompassIdle
    /\ DispatchIdle
    /\ toolsLoad \in BOOLEAN
    /\ stack = <<>>
    /\ calls = <<>>
    /\ instances = 0
    /\ toolCalls = 0
    /\ active_sessions = {}
    /\ requests = <<>>

\* the running agent invocation
top == stack[Len(stack)]

\* the calls of the dispatcher made so far
dispatcher_calls == Len(calls) + Len(stack)

\* the caller of the dispatcher is the routing pass, not an agent
AssignGuard ==
    /\ stack = <<>>
    /\ dispatcher_calls < MaxCalls

\* assign_agent_to_task(agent_name, task) from the routing pass: the agent
\* is constructed and its process is entered
AssignRuns(agent_name, task) ==
    /\ AssignGuard
    /\ runs_loop(agent_name, toolsLoad)
    /\ stack' = <<Frame(agent_name, task, instances + 1)>>
    /\ instances' = instances + 1
    /\ UNCHANGED <<toolsLoad, calls, toolCalls, hostVars>>
    /\ UNCHANGED <<loopVars, normVars, parseVars, compassVars, dispatchVars>>

\* assign_agent_to_task(agent_name, task) from the routing pass: the call
\* ends in one of the except clauses, or the constructor raises
AssignFails(agent_name, task) ==
    /\ AssignGuard
    /\ ~runs_loop(agent_name, toolsLoad)
    /\ calls' = Append(calls, failed_call(agent_name, task, 1, toolsLoad))
    /\ UNCHANGED <<toolsLoad, stack, instances, toolCalls, hostVars>>
    /\ UNCHANGED <<loopVars, normVars, parseVars, compassVars, dispatchVars>>

\* the running agent executes BaseAgent._process_step
BaseStepGuard ==
    /\ stack # <<>>
    /\ top.agent_name \in UsesBaseStep
    /\ ~top.done
    /\ top.pending = None

\* a step of BaseAgent._process_step that does not delegate
AgentStep(llm, tool) ==
    /\ BaseStepGuard
    /\ llm.kind = "call" => toolCalls < MaxToolCalls
    /\ toolCalls' = toolCalls + (IF llm.kind = "call" THEN 1 ELSE 0)
    /\ stack' = [stack EXCEPT ![Len(stack)] = after_base_step(top, llm, tool)]
    /\ UNCHANGED <<toolsLoad, calls, instances, hostVars>>
    /\ UNCHANGED <<loopVars, normVars, parseVars, compassVars, dispatchVars>>

\* the inference service answers the running agent with a call of its tool
\* assign_agent_to_task
DelegateGuard ==
    /\ BaseStepGuard
    /\ "assign_agent_to_task" \in tools_of(top.agent_name)
    /\ dispatcher_calls < MaxCalls

\* _execute_tool runs the dispatcher, which enters the process of callee;
\* the step of the caller waits for its result
AgentDelegateRuns(callee, subtask) ==
    /\ DelegateGuard
    /\ runs_loop(callee, toolsLoad)
    /\ stack' = Append([stack EXCEPT ![Len(stack)].pending = Some(DelegatingCall)],
                       Frame(callee, subtask, instances + 1))
    /\ instances' = instances + 1
    /\ UNCHANGED <<toolsLoad, calls, toolCalls, hostVars>>
    /\ UNCHANGED <<loopVars, normVars, parseVars, compassVars, dispatchVars>>

\* _execute_tool runs the dispatcher, which returns an error text; the step
\* of the caller goes on with it
AgentDelegateFails(callee, subtask) ==
    /\ DelegateGuard
    /\ ~runs_loop(callee, toolsLoad)
    /\ \E rec \in {failed_call(callee, subtask, Len(stack) + 1, toolsLoad)} :
          /\ calls' = Append(calls, rec)
          /\ stack' = [stack EXCEPT ![Len(stack)] =
                          after_base_step(top, DelegatingCall,
                                          tool_returns(rec.result.value))]
    /\ UNCHANGED <<toolsLoad, instances, toolCalls, hostVars>>
    /\ UNCHANGED <<loopVars, normVars, parseVars, compassVars, dispatchVars>>

\* the running agent is agent_name and has not made its step
SingleStepGuard(agent_name) ==
    /\ stack # <<>>
    /\ top.agent_name = agent_name
    /\ ~top.done

\* the step of scout
ScoutStep(search, llm) ==
    /\ SingleStepGuard(scout)
    /\ stack' = [stack EXCEPT ![Len(stack)] =
                    after_single_step(top, scout_process_step(top.st, search, llm))]
    /\ UNCHANGED <<toolsLoad, calls, instances, toolCalls, hostVars>>
    /\ UNCHANGED <<loopVars, normVars, parseVars, compassVars, dispatchVars>>

\* the step of techsage; the frame keeps what the inference service and
\* the file tools did for it and the calls of the file tools it made
TechsageStep(llm, io) ==
    /\ SingleStepGuard(techsage)
    /\ stack' = [stack EXCEPT ![Len(stack)] =
                    [after_single_step(top, techsage_process_step(top.st, llm))
                        EXCEPT !.files =
                            Some([code_blocks |-> IF llm.kind = "text"
                                                  THEN io.code_blocks ELSE <<>>,
                                  write_error |-> io.write_error,
                                  delete_error |-> io.delete_error,
                                  requests |-> techsage_file_requests(llm, io)])]]
    /\ UNCHANGED <<toolsLoad, calls, instances, toolCalls, hostVars>>
    /\ UNCHANGED <<loopVars, normVars, parseVars, compassVars, dispatchVars>>

\* the classifying inference call fails
FailingClassifiers == {c \in ClassifierOutcomes : c.kind = "fail"}

\* the step of compass, entered as compass('internal_session', task); in
\* this run the classifying inference call fails, so that the step
\* dispatches nothing
CompassFrameStep(cls, reply) ==
    /\ SingleStepGuard(compass)
    /\ \E step \in {compass_process_step(top.st, StepFrame, cls, reply,
                                         SameEntries(Raises(<<>>)))} :
          stack' = [stack EXCEPT ![Len(stack)] =
                      IF step.out.exc # None
                      THEN [top EXCEPT !.exc = step.out.exc, !.done = TRUE]
                      ELSE after_single_step(top, step.out.value)]
    /\ UNCHANGED <<toolsLoad, calls, instances, toolCalls, hostVars>>
    /\ UNCHANGED <<loopVars, normVars, parseVars, compassVars, dispatchVars>>

\* agent.process returns, the entry point returns, the dispatcher returns;
\* when the dispatcher was called as a tool, the step of the caller goes
\* on with its result
AgentReturn ==
    /\ stack # <<>>
    /\ top.done
    /\ \E rec \in {call_record(top.agent_name, top.task, Len(stack), top.inst,
                               TRUE,
                               entry_return(top.agent_name, top.st, top.exc),
                               top.st.messages, toolsLoad)} :
          /\ calls' = Append(calls, rec)
          /\ stack' = IF Len(stack) = 1 THEN <<>>
                      ELSE [SubSeq(stack, 1, Len(stack) - 1) EXCEPT
                              ![Len(stack) - 1] =
                                  after_base_step(stack[Len(stack) - 1],
                                      stack[Len(stack) - 1].pending[1],
                                      tool_returns(rec.result.value))]
    /\ UNCHANGED <<toolsLoad, instances, toolCalls, hostVars>>
    /\ UNCHANGED <<loopVars, normVars, parseVars, compassVars, dispatchVars>>

AgentsNext ==
    \/ \E agent_name \in CalleeNames, task \in Tasks : AssignRuns(agent_name, task)
    \/ \E agent_name \in CalleeNames, task \in Tasks : AssignFails(agent_name, task)
    \/ \E llm \in AgentLLMOutcomes, tool \in AgentToolOutcomes :
            AgentStep(llm, tool)
    \/ \E callee \in CalleeNames, subtask \in SubTasks :
            AgentDelegateRuns(callee, subtask)
    \/ \E callee \in CalleeNames, subtask \in SubTasks :
            AgentDelegateFails(callee, subtask)
    \/ \E search \in SearchOutcomes, llm \in AgentLLMOutcomes :
            ScoutStep(search, llm)
    \/ \E llm \in AgentLLMOutcomes : TechsageStep(llm, NoFiles)
    \/ \E cls \in FailingClassifiers, reply \in AgentLLMOutcomes :
            CompassFrameStep(cls, reply)
    \/ AgentReturn

AgentsSpec == AgentsInit /\ [][AgentsNext]_vars

\* ------------------------------------- techsage alone, with its files
\* techsage(task) is dispatched, makes its step on an implementation text
\* with code blocks, and returns
TechsageNext ==
    \/ \E task \in Tasks : AssignRuns(techsage, task)
    \/ \E llm \in AgentLLMOutcomes, io \in FileInputs : TechsageStep(llm, io)
    \/ AgentReturn

TechsageSpec == AgentsInit /\ [][TechsageNext]_vars

\* ------------------------------------------------- the host, app.py
\* requests the host handles at the same time
MaxRequests == 2

\* request.session_id: a given id, or None
SessionIds == {None, Some(<<"s1">>)}

\* str(uuid.uuid4()) of the i-th request
uuid4(i) == <<"uuid", ToString(i)>>

\* the keys of the dict a session is initialized with
SessionKeys == {}

\* HTTPException(status_code=500, detail=str(e))
HTTPException(detail) == [status |-> 500, detail |-> detail, session_id |-> <<>>]

\* ChatResponse(response=response, session_id=session_id)
ChatResponse(response, session_id) ==
    [status |-> 200, detail |-> response, session_id |-> session_id]

\* a request chat_endpoint has been called with
ChatRequest(message, session_id) ==
    [message |-> message,
     session_id |-> session_id,
     at |-> "received",
     inst |-> 0,
     st |-> None,
     exc |-> None,
     response |-> None,
     reply |-> None]

\* what the inference service answers the orchestrator of a request
HostReplies == {l \in AgentLLMOutcomes : l.kind # "call"}

HostInit ==
    /\ LoopIdle
    /\ NormIdle
    /\ ParseIdle
    /\ CompassIdle
    /\ DispatchIdle
    /\ toolsLoad = TRUE
    /\ stack = <<>>
    /\ calls = <<>>
    /\ instances = 0
    /\ toolCalls = 0
    /\ active_sessions = {}
    /\ requests = <<>>

\* a request arrives at POST /api/chat
ChatReceive(message, session_id) ==
    /\ Len(requests) < MaxRequests
    /\ requests' = Append(requests, ChatRequest(message, session_id))
    /\ UNCHANGED <<agentsVars, active_sessions>>
    /\ UNCHANGED <<loopVars, normVars, parseVars, compassVars, dispatchVars>>

\* session_id = request.session_id or str(uuid.uuid4()), and the session
\* is initialized if it does not exist
ChatSession(i) ==
    /\ requests[i].at = "received"
    /\ \E session_id \in {IF requests[i].session_id = None THEN uuid4(i)
                          ELSE requests[i].session_id[1]} :
          /\ active_sessions' = active_sessions \cup {session_id}
          /\ requests' = [requests EXCEPT ![i].session_id = Some(session_id),
                                          ![i].at = "session"]
    /\ UNCHANGED agentsVars
    /\ UNCHANGED <<loopVars, normVars, parseVars, compassVars, dispatchVars>>

\* an initial state that goes on from the conversation of a request in
\* progress
request_initial_state_shared(i) ==
    IF \E j \in 1..Len(requests) : requests[j].st # None
    THEN LET j == CHOOSE j \in 1..Len(requests) : requests[j].st # None
         IN [requests[j].st[1] EXCEPT
                !.messages = @ \o <<HumanMessage(requests[i].message)>>]
    ELSE agent_initial_state(compass, requests[i].message)

\* the initial state process builds for the request i
request_initial_state(i) == agent_initial_state(compass, requests[i].message)

\* compass(session_id, message): agent = CompassAgent(), and agent.process
\* builds its initial state
ChatCompass(i) ==
    /\ requests[i].at = "session"
    /\ instances' = instances + 1
    /\ requests' = [requests EXCEPT ![i].inst = instances + 1,
                                    ![i].st = Some(request_initial_state(i)),
                                    ![i].at = "invoke"]
    /\ UNCHANGED <<toolsLoad, stack, calls, toolCalls, active_sessions>>
    /\ UNCHANGED <<loopVars, normVars, parseVars, compassVars, dispatchVars>>

\* graph.invoke(initial_state): the step of compass and its edge
ChatStep(i, cls, reply, entries) ==
    /\ requests[i].at = "invoke"
    /\ \E step \in {compass_process_step(requests[i].st[1], StepFrame, cls,
                                         reply, entries)} :
          requests' = [requests EXCEPT ![i] =
              IF step.out.exc # None
              THEN [@ EXCEPT !.exc = step.out.exc, !.at = "processed"]
              ELSE [@ EXCEPT !.st = Some(step.out.value),
                             !.at = IF compass_should_continue(step.out.value,
                                                          DefaultMaxIterations)
                                    THEN "invoke" ELSE "processed"]]
    /\ UNCHANGED <<agentsVars, active_sessions>>
    /\ UNCHANGED <<loopVars, normVars, parseVars, compassVars, dispatchVars>>

\* agent.process returns and compass returns: response = compass(...)
ChatProcessed(i) ==
    /\ requests[i].at = "processed"
    /\ requests' = [requests EXCEPT
          ![i].response = Some(process(requests[i].st[1], requests[i].exc).value),
          ![i].at = "responded"]
    /\ UNCHANGED <<agentsVars, active_sessions>>
    /\ UNCHANGED <<loopVars, normVars, parseVars, compassVars, dispatchVars>>

\* the session history is updated and the response is returned, or the
\* exception raised on the way is turned into an HTTPException
ChatReply(i) ==
    /\ requests[i].at = "responded"
    /\ requests' = [requests EXCEPT
          ![i].reply = Some(IF "history" \in SessionKeys
                            THEN ChatResponse(requests[i].response[1],
                                              requests[i].session_id[1])
                            ELSE HTTPException(<<"'history'">>)),
          ![i].at = "done"]
    /\ UNCHANGED <<agentsVars, active_sessions>>
    /\ UNCHANGED <<loopVars, normVars, parseVars, compassVars, dispatchVars>>

HostNext ==
    \/ \E message \in Tasks, session_id \in SessionIds :
            ChatReceive(message, session_id)
    \/ \E i \in 1..Len(requests) : ChatSession(i)
    \/ \E i \in 1..Len(requests) : ChatCompass(i)
    \/ \E i \in 1..Len(requests), cls \in FailingClassifiers,
          reply \in HostReplies :
            ChatStep(i, cls, reply, SameEntries(Raises(<<>>)))
    \/ \E i \in 1..Len(requests) : ChatProcessed(i)
    \/ \E i \in 1..Len(requests) : ChatReply(i)

HostSpec == HostInit /\ [][HostNext]_vars

\* ------------------------------------------------------- the generic loop
\* the texts _generate_final_answer can return
SummaryTexts == {generate_final_answer(l) : l \in LLMOutcomes}

\* the texts the except branch of the step can produce
StepFailureTexts == {step_error_msg(e) : e \in Errs}

\* C1: for every budget B >= 1 and every behaviour of the inference
\* service and the tools, an invocation of BaseAgent.process ends, and it
\* ends after at most B+1 executions of the step function.
C1_TerminatesWithinBudget ==
    /\ [](steps <= max_iterations + 1)
    /\ <>(pc = "done")

\* an invocation that used its whole budget, one tool call per step
C1_Witness ==
    /\ pc = "done"
    /\ max_iterations > 1
    /\ steps = max_iterations
    /\ toolRequests = max_iterations

\* C2: when every inference call fails, the invocation ends within the
\* budget and process returns (raises nothing) a non-empty text that
\* describes the failure.
C2_AllFailuresStillAnswer ==
    (pc = "done" /\ llmCalls > 0 /\ llmFails = llmCalls)
        => /\ steps <= max_iterations
           /\ result # None
           /\ result[1].exc = None
           /\ result[1].value # <<>>
           /\ result[1].value \in StepFailureTexts

\* an invocation whose inference call raised an exception with an empty
\* description
C2_Witness ==
    /\ pc = "done"
    /\ llmCalls > 0
    /\ llmFails = llmCalls
    /\ result # None
    /\ result[1].value = step_error_msg(<<>>)

\* C3: a step whose inference call or tool execution raises is not fatal:
\* the final answer stays unset and, while the iteration count is below
\* the budget, the loop runs a further step.
C3_StepFailureNotFatal ==
    (pc = "check" /\ lastStep \in {"llm_fail", "tool_fail"})
        => /\ final_answer = None
           /\ (iterations < max_iterations
                  => should_continue(state, max_iterations))

\* C4: an invocation that spent all B steps on tool calls returns the text
\* of the forced summarization (or the description of its failure), never
\* a raw tool result.
C4_ExhaustedBudgetIsSummarized ==
    (pc = "done" /\ toolRequests = max_iterations)
        => /\ summarized
           /\ result[1].value \in SummaryTexts

\* --------------------------------------------------------- normalization
\* C7: normalization is total and idempotent: its result is one of the
\* agent identities or "direct", and normalizing the result gives the
\* result again.
C7_NormalizeTotalIdempotent ==
    /\ cleaned # None => cleaned[1] \in AgentIdentities \cup {direct}
    /\ recleaned # None => recleaned[1] = cleaned[1]

\* a name that is not itself an identity was normalized to one, twice
C7_Witness ==
    /\ recleaned # None
    /\ cleaned[1] \in AgentIdentities
    /\ raw_name # cleaned[1]

\* -------------------------------------------------------- classification
\* the additional agents the text proposes, before the routing rule
ProposedAdditional == parse_analysis(classifier.content).value.additional_agents

\* C8: when the classified primary agent is scout, the TaskAnalysis that
\* _analyze_task returns has no additional agents, whatever the text
\* proposed.
C8_ScoutHasNoAdditional ==
    (task_analysis # None /\ task_analysis[1].exc = None
        /\ task_analysis[1].value.primary_agent = scout)
        => task_analysis[1].value.additional_agents = <<>>

\* a text with primary scout that proposes additional agents was analyzed
C8_Witness ==
    /\ task_analysis # None
    /\ task_analysis[1].exc = None
    /\ task_analysis[1].value.primary_agent = scout
    /\ ProposedAdditional # <<>>

\* line k of the text (1-based) holds a colon
ColonInLine(text, k) ==
    \E i \in 1..Len(text) :
        /\ text[i] = ":"
        /\ Cardinality({j \in 1..(i-1) : text[j] = "\n"}) = k - 1

LineCount(text) == Cardinality({j \in 1..Len(text) : text[j] = "\n"}) + 1

\* the line structure the parser reads is not there: the first line, or a
\* second line, has no "label: value" form
StructureMissing(text) ==
    \/ ~ColonInLine(text, 1)
    \/ LineCount(text) > 1 /\ ~ColonInLine(text, 2)

\* C9: parsing is total: it returns a TaskAnalysis for every text and never
\* raises, and when the line structure is not found the result is
\* primary = direct with no additional agents.
C9_ParseTotalAndDegrades ==
    parsed # None =>
        /\ parsed[1].exc = None
        /\ DOMAIN parsed[1].value =
              {"primary_agent", "reason", "additional_agents", "task_breakdown"}
        /\ StructureMissing(classifier.content) =>
              /\ parsed[1].value.primary_agent = direct
              /\ parsed[1].value.additional_agents = <<>>

\* a text that names an agent but lacks the structure was parsed
C9_Witness ==
    /\ parsed # None
    /\ StructureMissing(classifier.content)
    /\ Contains(classifier.content, techsage)
    /\ parsed[1].value = degraded_analysis

\* ----------------------------------------------------------- dispatcher
\* the agent identities that are registered: the five entry points
Registered == {compass, tool_smith, architect, scout, techsage}

\* the literal texts for an identity that is not found
NotFoundTexts(agent_name) ==
    { <<"Error: Agent '">> \o agent_name \o <<"' not found">>,
      <<"Error: Agent function '">> \o agent_name \o <<"' not found in module">> }

\* C6: a dispatch to an identity that is not registered returns a literal
\* not-found text, raises nothing, and calls no entry point.
C6_UnknownAgentIsData ==
    /\ \A k \in 1..Len(dispatches) :
          dispatches[k].agent_name \notin Registered
            => /\ dispatches[k].outcome.exc = None
               /\ dispatches[k].outcome.value
                      \in NotFoundTexts(dispatches[k].agent_name)
    /\ \A k \in 1..Len(entryCalls) : entryCalls[k].entry \in Registered

\* "ghost" was dispatched, after a dispatch that did call an entry point
C6_Witness ==
    /\ Len(dispatches) = 2
    /\ dispatches[1].agent_name \in Registered
    /\ dispatches[2].agent_name = ghost
    /\ Len(entryCalls) = 1

\* --------------------------------------------------------- orchestrator
\* the texts that are the structured error payload for a task
ErrorPayloads(task) ==
    {error_json(task, <<"Error in processing: ">> \o e) :
        e \in Errs \cup {<<"name 'messages' is not defined">>}}

\* C5: whatever fails in the orchestrator's step, compass returns (raises
\* nothing) the structured error payload with the original task, an error
\* description and the three suggestions.
C5_FailureBecomesErrorPayload ==
    (pc = "done" /\ agent = "compass" /\ stepExc # None)
        => /\ result[1].exc = None
           /\ result[1].value \in ErrorPayloads(input_text)

\* the texts that are a response with the orchestrator as sole responder
DirectPayloads(task, an) ==
    {response_json(task, an, r, <<[agent |-> compass, response |-> r]>>) :
        r \in LLMTexts}

\* C10: when the classification is primary = direct, nothing is
\* dispatched and the returned response has exactly one per-agent entry,
\* attributed to compass, whose text is the aggregated response text.
C10_DirectIsSoleResponder ==
    (pc = "done" /\ agent = "compass" /\ classifier.kind = "text"
        /\ analyze_task(classifier).value.primary_agent = direct
        /\ result[1].value \notin ErrorPayloads(input_text))
        => /\ dispatches = <<>>
           /\ result[1].value
                \in DirectPayloads(input_text, analyze_task(classifier).value)

\* ----------------------------------------------------------- delegation
\* the agents _delegate_to_agents dispatches to, in order: the primary
\* agent, then the additional agents that are not the primary agent
DelegationOrder(an) ==
    <<an.primary_agent>>
    \o SelectSeq(an.additional_agents, LAMBDA a : a # an.primary_agent)

\* the "[agent]: response" line of a dispatch
ResponseLine(record) ==
    <<"[">> \o record.agent_name \o <<"]: ">> \o record.outcome.value

\* the earlier responses a sub-task lists
ResponseMarks(text) == Cardinality({i \in 1..Len(text) : text[i] = "]: "})

\* C11: in the delegating branch the dispatches are made one after the
\* other in the listed order: first the primary agent with the original
\* task unchanged, then each additional agent; the sub-task of the k-th
\* dispatch holds the original task and the responses of the k-1
\* dispatches before it, and of no other dispatch.
C11_DelegationOrderedWithContext ==
    delegation # None =>
        /\ Len(dispatches) <= Len(DelegationOrder(delegation[1].analysis))
        /\ \A k \in 1..Len(dispatches) :
              dispatches[k].agent_name
                  = DelegationOrder(delegation[1].analysis)[k]
        /\ dispatches # <<>> => dispatches[1].task = delegation[1].task
        /\ \A k \in 2..Len(dispatches) :
              /\ Contains(dispatches[k].task, delegation[1].task)
              /\ \A j \in 1..(k-1) :
                    Contains(dispatches[k].task, ResponseLine(dispatches[j]))
              /\ ResponseMarks(dispatches[k].task) = k - 1
        /\ delegation[1].returned # None =>
              /\ Len(dispatches) = Len(DelegationOrder(delegation[1].analysis))
              /\ delegation[1].returned[1] = agent_responses_of(dispatches)

\* a delegation to three agents has returned, the second of which failed
C11_Witness ==
    /\ delegation # None
    /\ delegation[1].returned # None
    /\ Len(dispatches) = 3
    /\ dispatches[2].entry.exc # None
    /\ dispatches[3].agent_name # dispatches[2].agent_name

\* ------------------------------------------- orchestrator, the routing pass
\* what the dispatcher can give back for the developer
DeveloperResponses(task) ==
    {assign_agent_to_task(techsage, task, e).value : e \in EntryOutcomes}

\* the responses with one per-agent record, of the developer, whose text
\* is embedded as it is in the aggregated text
DeveloperPayloads(task, an) ==
    {response_json(task, an,
                   format_responses(<<[agent |-> techsage, response |-> r]>>, an),
                   <<[agent |-> techsage, response |-> r]>>) :
        r \in DeveloperResponses(task)}

\* C12: when the task is classified with primary = techsage and no
\* additional agents, exactly one entry point is called, techsage, once;
\* the response has exactly one per-agent record and its aggregated text
\* embeds the text the entry point returned, unmodified.
C12_DeveloperOnlyOnce ==
    (pc = "done" /\ agent = "compass" /\ classifier.kind = "text"
        /\ analyze_task(classifier).value.primary_agent = techsage
        /\ analyze_task(classifier).value.additional_agents = <<>>)
        => /\ Len(dispatches) = 1
           /\ Len(entryCalls) = 1
           /\ entryCalls[1].entry = techsage
           /\ entryCalls[1].args = <<input_text>>
           /\ result[1].value
                \in DeveloperPayloads(input_text, analyze_task(classifier).value)
           /\ Contains(result[1].value, dispatches[1].outcome.value)

\* C13: when the classifier proposes primary = scout with additional
\* agents [techsage], the routing pass makes exactly one delegation, to
\* scout, and the techsage entry point is never called.
C13_ResearcherAloneIsDelegated ==
    (pc = "done" /\ agent = "compass" /\ classifier.kind = "text"
        /\ parse_analysis(classifier.content).value.primary_agent = scout
        /\ parse_analysis(classifier.content).value.additional_agents
              = <<techsage>>)
        => /\ Len(dispatches) = 1
           /\ dispatches[1].agent_name = scout
           /\ \A k \in 1..Len(entryCalls) : entryCalls[k].entry # techsage

\* C14: every invocation of the orchestrator makes exactly one
\* classify-route-aggregate pass: its step runs once, classifies once, and
\* the loop then ends, whether the pass succeeds or fails.
C14_ExactlyOnePass ==
    /\ agent = "compass" => steps <= 1 /\ classifications <= 1
    /\ (agent = "compass" /\ pc \in {"return", "done"})
          => steps = 1 /\ classifications = 1

\* the text holds the token tok
HasToken(text, tok) == \E i \in 1..Len(text) : text[i] = tok

\* the fields of the structured response, as json.dumps writes their keys
ResponseFields ==
    {"{\"task\": \"", "\", \"analysis\": ", ", \"response\": \"",
     "\", \"agent_responses\": ["}

\* the error field, empty and populated
ErrorNull == "], \"error\": null}"
ErrorSet == "\", \"error\": \""

\* C15: every response of the orchestrator entry point holds the original
\* task, the classification, the per-agent responses, the aggregated text
\* and an error field, and the error field is populated exactly when the
\* request failed.
C15_ResponseHasAllFields ==
    (pc = "done" /\ agent = "compass")
        => /\ result[1].exc = None
           /\ \A f \in ResponseFields : HasToken(result[1].value, f)
           /\ Contains(result[1].value, input_text)
           /\ HasToken(result[1].value, ErrorNull)
                 \/ HasToken(result[1].value, ErrorSet)
           /\ HasToken(result[1].value, ErrorSet) <=> stepExc # None

\* ------------------------------------------- dispatcher, the returned text
\* C17: a dispatch to a registered identity whose entry point returns gives
\* back exactly the text the entry point returned.
C17_DispatchReturnsEntryText ==
    \A k \in 1..Len(dispatches) :
        (dispatches[k].agent_name \in Registered
            /\ dispatches[k].entry.exc = None)
            => /\ dispatches[k].invoked
               /\ dispatches[k].outcome.exc = None
               /\ dispatches[k].outcome.value = dispatches[k].entry.value

\* two registered identities were dispatched; one entry point returned a
\* text and the other an empty text
C17_Witness ==
    /\ Len(dispatches) = 2
    /\ dispatches[1].agent_name = compass
    /\ dispatches[1].entry = Returns(<<"agent reply">>)
    /\ dispatches[2].agent_name = scout
    /\ dispatches[2].entry = Returns(<<>>)

\* ----------------------------------------------------- the entry points
\* C16: each of the five entry points returns a text for every task it is
\* given, so that what the dispatcher returns is always a text.
C16_EntryPointsReturnText ==
    \A k \in 1..Len(calls) :
        /\ (calls[k].agent_name \in Registered /\ calls[k].called)
              => /\ calls[k].entry.exc = None
                 /\ calls[k].entry.type = "str"
        /\ calls[k].result.exc = None
        /\ result_type(calls[k].result) = "str"

\* C18: dispatch is stateless across calls: every dispatch that runs an
\* agent constructs a new instance and starts a new conversation, which
\* holds the system prompt of the agent, the task of this dispatch and
\* nothing of an earlier dispatch.
C18_DispatchIsStateless ==
    /\ \A j, k \in 1..Len(calls) :
          (j # k /\ calls[j].inst # 0) => calls[j].inst # calls[k].inst
    /\ \A k \in 1..Len(calls) :
          calls[k].inst # 0
            => /\ Len(calls[k].conversation) >= 2
               /\ calls[k].conversation[1]
                      = SystemMessage(system_prompt(calls[k].agent_name))
               /\ calls[k].conversation[2] = HumanMessage(calls[k].task)
               /\ \A i \in 3..Len(calls[k].conversation) :
                      calls[k].conversation[i].role # "human"
    /\ \A k \in 1..Len(stack) :
          /\ stack[k].st.messages[2] = HumanMessage(stack[k].task)
          /\ \A j \in 1..Len(calls) : calls[j].inst # stack[k].inst

\* two dispatches to the same identity, with different tasks, have run
\* their agents, the first of which added to its conversation
C18_Witness ==
    /\ Len(calls) = 2
    /\ calls[1].agent_name = calls[2].agent_name
    /\ calls[1].task # calls[2].task
    /\ calls[1].inst # 0
    /\ calls[2].inst # 0
    /\ Len(calls[1].conversation) > 2

OnlyFrom(text, own, other) ==
    \A k \in 1..Len(text) :
        (\E n \in 1..Len(other) : text[k] = other[n])
            => \E n \in 1..Len(own) : text[k] = own[n]

\* C20: two requests handled at the same time each have their own agent
\* instance and their own conversation: in every interleaving of their
\* steps the conversation of a request holds its system prompt and its own
\* message, and neither it nor the response holds words of the message of
\* the other request.
C20_ConcurrentRequestsIsolated ==
    \A i \in 1..Len(requests) :
        /\ requests[i].st # None
              => /\ requests[i].inst # 0
                 /\ requests[i].st[1].messages[1]
                        = SystemMessage(system_prompt(compass))
                 /\ requests[i].st[1].messages[2]
                        = HumanMessage(requests[i].message)
        /\ \A j \in 1..Len(requests) :
              j # i
                => /\ requests[i].inst # 0 => requests[i].inst # requests[j].inst
                   /\ requests[i].st # None
                        => \A k \in 1..Len(requests[i].st[1].messages) :
                              OnlyFrom(requests[i].st[1].messages[k].content,
                                       requests[i].message, requests[j].message)
                   /\ requests[i].response # None
                        => OnlyFrom(requests[i].response[1],
                                    requests[i].message, requests[j].message)

\* two requests of one session with different messages are both between
\* the construction of their agent and the return of its process
C20_Witness ==
    /\ Len(requests) = 2
    /\ requests[1].message # requests[2].message
    /\ requests[1].session_id = requests[2].session_id
    /\ requests[1].at = "invoke"
    /\ requests[2].at = "processed"
    /\ requests[1].st # None
    /\ requests[2].st # None

\* ------------------------------------------- the generic loop, step by step
\* C21: the loop runs or has terminated, with no way back: once the final
\* answer is set the next check ends the loop, and from then on no step is
\* executed and no inference call or tool call is made.
C21_TerminatedStaysTerminated ==
    [][/\ (pc = "check" /\ final_answer # None) => pc' = "return"
       /\ final_answer # None
            => /\ steps' = steps
               /\ llmCalls' = llmCalls
               /\ toolRequests' = toolRequests
               /\ toolExecs' = toolExecs
               /\ final_answer' = final_answer
       /\ pc \in {"return", "done"}
            => /\ pc' \in {"return", "done"}
               /\ steps' = steps
               /\ llmCalls' = llmCalls
               /\ toolExecs' = toolExecs]_vars

\* an invocation that ended on its final answer with budget left
C21_Witness ==
    /\ pc = "done"
    /\ final_answer # None
    /\ iterations < max_iterations
    /\ steps = iterations

\* -------------------------------------------- the state of an invocation
\* C22: in every agent invocation (the generic loop, the orchestrator, the
\* researcher, the developer) the iteration count never decreases from one
\* step to the next.
C22_IterationsNeverDecrease ==
    [][/\ iterations' >= iterations
       /\ \A k \in 1..Len(stack) :
            (k <= Len(stack') /\ stack'[k].inst = stack[k].inst)
                => stack'[k].st.iterations >= stack[k].st.iterations]_vars

\* the researcher has made its step and returned, and a generic agent is
\* past its second step
C22_Witness ==
    /\ Len(calls) = 1
    /\ calls[1].agent_name = scout
    /\ Len(calls[1].conversation) = 3
    /\ Len(stack) = 1
    /\ stack[1].agent_name = tool_smith
    /\ stack[1].st.iterations = 2

\* the sequence a is the beginning of the sequence b
IsPrefix(a, b) == Len(a) <= Len(b) /\ SubSeq(b, 1, Len(a)) = a

\* C23: the conversation of an invocation is append-only: after every
\* step, failed or not, the conversation before the step is a prefix of
\* the conversation after it.
C23_ConversationAppendOnly ==
    [][/\ IsPrefix(messages, messages')
       /\ \A k \in 1..Len(stack) :
            (k <= Len(stack') /\ stack'[k].inst = stack[k].inst)
                => IsPrefix(stack[k].st.messages, stack'[k].st.messages)]_vars

\* a generic agent returned after a tool call and a failed inference call,
\* and the developer has made its step
C23_Witness ==
    /\ Len(calls) = 1
    /\ calls[1].agent_name = tool_smith
    /\ Len(calls[1].conversation) = 5
    /\ calls[1].conversation[5].role = "system"
    /\ Len(stack) = 1
    /\ stack[1].agent_name = techsage
    /\ Len(stack[1].st.messages) = 3

\* ------------------------------------------------------------ tool calls
\* C24: a function call returned by the inference service is executed at
\* most once and not tried again after a failure: a step adds at most one
\* tool execution, and only together with a request, so that the
\* executions of one invocation exceed neither its requests nor its budget.
C24_ToolCallAtMostOnce ==
    [][/\ toolRequests' - toolRequests \in {0, 1}
       /\ toolExecs' - toolExecs \in {0, 1}
       /\ toolExecs' - toolExecs <= toolRequests' - toolRequests
       /\ toolExecs' <= toolRequests'
       /\ toolRequests' <= max_iterations'
       /\ toolExecs' <= max_iterations']_vars

\* a tool raised, the next step asked for a tool again, and one of the
\* requests named no tool of the agent
C24_Witness ==
    /\ pc = "check"
    /\ lastStep = "tool_ok"
    /\ toolExecs = 2
    /\ toolRequests = 3
    /\ \E i \in 1..Len(messages) :
            messages[i].content = <<"Error executing tool: ", "timeout">>

\* C25: a function call that names no tool of the agent gives the literal
\* text "Tool <name> not found", appended as the tool-result message after
\* the message of the request; no tool is executed, the step does not
\* fail (the final answer stays unset) and the loop goes on while the
\* budget allows.
C25_UnknownToolIsNotFatal ==
    [][/\ (pc = "step" /\ lastStep' = "tool_missing")
            => /\ \E name \in CallNames \ AgentTools :
                    messages' = messages \o
                        <<AICall(name),
                          SystemMessage(<<"Tool ", name, " not found">>)>>
               /\ toolRequests' = toolRequests + 1
               /\ toolExecs' = toolExecs
               /\ final_answer = None
               /\ final_answer' = None
               /\ iterations' = iterations + 1
       /\ (pc = "check" /\ lastStep = "tool_missing")
            => pc' = IF iterations < max_iterations THEN "step" ELSE "return"]_vars

\* the loop has gone on after a call of a tool the agent does not have, and
\* come to its answer
C25_Witness ==
    /\ pc = "done"
    /\ lastStep = "text"
    /\ toolRequests = 1
    /\ toolExecs = 0
    /\ messages[4] = SystemMessage(<<"Tool ", "no_such_tool", " not found">>)
    /\ result[1].value = <<"llm text">>

\* ------------------------------------------------ the branches of a step
\* the step being taken is one in which the inference service asked for a
\* tool
ToolCallStep ==
    /\ pc = "step"
    /\ lastStep' \in {"tool_ok", "tool_fail", "tool_missing"}

\* C28: a step in which the inference service asks for a tool appends two
\* messages, the assistant message of the request and then the message of
\* the result of the tool (failed or not), leaves the final answer unset
\* and adds exactly one to the iteration count.
C28_ToolCallStepAppendsTwo ==
    [][ToolCallStep
         => /\ Len(messages') = Len(messages) + 2
            /\ SubSeq(messages', 1, Len(messages)) = messages
            /\ messages'[Len(messages) + 1].role = "ai"
            /\ messages'[Len(messages) + 1].function_call # None
            /\ messages'[Len(messages) + 1].function_call[1] \in CallNames
            /\ messages'[Len(messages) + 2].role = "system"
            /\ messages'[Len(messages) + 2].function_call = None
            /\ messages'[Len(messages) + 2].content
                  \in ToolResults
                      \cup {<<"Error executing tool: ">> \o e : e \in Errs}
                      \cup {<<"Tool ", n, " not found">> : n \in CallNames}
            /\ final_answer' = None
            /\ iterations' = iterations + 1]_vars

\* two steps that asked for a tool: the tool returned, then it raised
C28_Witness ==
    /\ pc = "check"
    /\ lastStep = "tool_fail"
    /\ iterations = 2
    /\ Len(messages) = 6
    /\ messages[4].content \in ToolResults
    /\ final_answer = None

\* C29: a step in which the inference service returns text and asks for no
\* tool appends one assistant message with that text, sets the final
\* answer to it and adds exactly one to the iteration count; the
\* invocation returns that text.
C29_TextStepIsFinalAnswer ==
    /\ [][(pc = "step" /\ lastStep' = "text")
            => /\ Len(messages') = Len(messages) + 1
               /\ SubSeq(messages', 1, Len(messages)) = messages
               /\ messages'[Len(messages')].role = "ai"
               /\ messages'[Len(messages')].function_call = None
               /\ messages'[Len(messages')].content \in LLMTexts
               /\ final_answer' = Some(messages'[Len(messages')].content)
               /\ iterations' = iterations + 1]_vars
    /\ []((pc = "done" /\ lastStep = "text")
            => /\ result[1].exc = None
               /\ result[1].value = messages[Len(messages)].content
               /\ Some(result[1].value) = final_answer)

\* the inference service answered with an empty text after a tool call,
\* and the invocation has returned
C29_Witness ==
    /\ pc = "done"
    /\ lastStep = "text"
    /\ toolRequests = 1
    /\ final_answer = Some(<<>>)
    /\ result[1].value = <<>>

\* C30: a tool that raises makes the adapter return the text "Error
\* executing tool: <error>": the step does not fail, and that text is the
\* message of the result; what a tool returns is recorded as it is.
C30_ToolFailureIsDescribed ==
    /\ [][(pc = "step" /\ lastStep' = "tool_fail")
            => /\ messages'[Len(messages')].content
                    \in {<<"Error executing tool: ">> \o e : e \in Errs}
               /\ messages'[Len(messages')].role = "system"
               /\ messages'[Len(messages') - 1].role = "ai"
               /\ final_answer' = None
               /\ llmFails' = llmFails
               /\ toolExecs' = toolExecs + 1]_vars
    /\ [][(pc = "step" /\ lastStep' = "tool_ok")
            => /\ messages'[Len(messages')] \in
                    {SystemMessage(v) : v \in ToolResults}
               /\ final_answer' = None
               /\ toolExecs' = toolExecs + 1]_vars

\* a tool raised with an empty description, then a tool returned
C30_Witness ==
    /\ pc = "check"
    /\ lastStep = "tool_ok"
    /\ Len(messages) = 6
    /\ messages[4].content = <<"Error executing tool: ">>
    /\ messages[6].content = <<"tool output">>

\* ------------------------------------------------- delegations that fail
\* the dispatch did not get a text from an entry point
FailedDispatch(record) == ~record.invoked \/ record.entry.exc # None

\* the text the dispatcher gives for a dispatch that failed
FailureText(record) ==
    IF record.agent_name \notin AgentModules
    THEN <<"Error: Agent '">> \o record.agent_name \o <<"' not found">>
    ELSE IF ~record.invoked
    THEN <<"Error: Agent function '">> \o record.agent_name
         \o <<"' not found in module">>
    ELSE <<"Error assigning task to agent ">> \o record.agent_name
         \o <<": ">> \o record.entry.exc[1]

\* the last message of the step that aggregates the dispatches records
AggregatedResponse(del, records) ==
    LET st == compass_aggregate(initial_state(del.task), del.task,
                                del.analysis, records).value
    IN st.messages[Len(st.messages)].content

SingleShot == {scout, techsage}

\* C27: the researcher and the developer have a budget of one iteration:
\* an invocation makes its step exactly once and then ends, whether the
\* step succeeded, found nothing or failed: a running invocation has made
\* no step or has made one and is over, and one that is over is not
\* stepped again.
C27_SingleShotStepsOnce ==
    /\ [](/\ \A a \in SingleShot : max_iterations_of(a) = 1
          /\ \A k \in 1..Len(stack) :
                stack[k].agent_name \in SingleShot
                  => /\ stack[k].st.iterations \in {0, 1}
                     /\ stack[k].done <=> stack[k].st.iterations = 1
                     /\ Len(stack[k].st.messages) = 2 + stack[k].st.iterations
          /\ \A k \in 1..Len(calls) :
                (calls[k].agent_name \in SingleShot /\ calls[k].inst # 0)
                  => Len(calls[k].conversation) = 3)
    /\ [][\A k \in 1..Len(stack) :
            (stack[k].agent_name \in SingleShot /\ stack[k].done)
              => (k = Len(stack) /\ Len(stack') = k - 1)]_vars

\* the researcher found nothing and returned; the developer, whose step
\* failed, is over
C27_Witness ==
    /\ Len(calls) = 1
    /\ calls[1].agent_name = scout
    /\ HasToken(calls[1].conversation[3].content, "no_results")
    /\ Len(stack) = 1
    /\ stack[1].agent_name = techsage
    /\ stack[1].done
    /\ HasToken(stack[1].st.messages[3].content, "error")

\* --------------------------------------------- the step, on any state
\* C31: applied to a state with an empty conversation and an iteration
\* count below the budget, the step of the generic loop returns the state
\* as it is (conversation, iteration count and final answer) and calls
\* neither the inference service nor a tool.
C31_EmptyConversationIsNoOp ==
    [][(pc = "step" /\ messages = <<>> /\ iterations < max_iterations)
         => /\ messages' = messages
            /\ iterations' = iterations
            /\ final_answer' = final_answer
            /\ lastStep' = "noop"
            /\ llmCalls' = llmCalls
            /\ llmFails' = llmFails
            /\ toolRequests' = toolRequests
            /\ toolExecs' = toolExecs
            /\ ~summarized']_vars

\* the step was made twice on an empty conversation, below the budget
C31_Witness ==
    /\ pc = "check"
    /\ lastStep = "noop"
    /\ steps = 2
    /\ messages = <<>>
    /\ iterations < max_iterations
    /\ llmCalls = 0

\* ------------------------------------------------------- the aggregation
\* the texts the dispatches records gave, one per line, in their order
RECURSIVE ResponsesInOrder(_)
ResponsesInOrder(records) ==
    IF records = <<>> THEN <<>>
    ELSE records[1].outcome.value
         \o (IF Len(records) > 1 THEN <<"\n">> ELSE <<>>)
         \o ResponsesInOrder(Tail(records))

C33_DispatchTargetsAreIdentities ==
    delegation # None =>
        \A k \in 1..Len(dispatches) :
            /\ dispatches[k].agent_name \in AgentIdentities
            /\ dispatches[k].agent_name # direct

\* C34: in one routing pass no identity is dispatched more than once: the
\* primary agent exactly once and every identity of the additional agents
\* at most once, also when the list repeats an identity or the primary.
C34_NoIdentityDispatchedTwice ==
    delegation # None =>
        /\ \A j, k \in 1..Len(dispatches) :
              j # k => dispatches[j].agent_name # dispatches[k].agent_name
        /\ delegation[1].returned # None =>
              Cardinality({k \in 1..Len(dispatches) :
                  dispatches[k].agent_name
                      = delegation[1].analysis.primary_agent}) = 1

\* ------------------------------------------- the first line of the text
\* what follows the first colon of the first line of the text: the <name>
\* of a first line "<label>: <name>"; <<>> when the line has no colon
FirstLineName(text) ==
    LET line == Split(text, "\n")[1]
    IN  IF HasToken(line, ":")
        THEN SubSeq(line, SepPos(line, ":", 1) + 1, Len(line))
        ELSE <<>>

\* the identities the <name> of the first line holds
FirstLineIdentities(text) ==
    {id \in AgentIdentities : Contains(Lower(FirstLineName(text)), id)}

\* C35: when the first line of the classifier text is "<label>: <name>"
\* and <name> holds a valid identity, the parsed primary agent is that
\* identity, whether later lines are present, and well formed, or not.
C35_FirstLineDecidesPrimary ==
    parsed # None =>
        \A id \in AgentIdentities :
            FirstLineIdentities(classifier.content) = {id}
                => parsed[1].value.primary_agent = id

\* ------------------------------------------ the files of a techsage step
\* position of the first call of tool on filepath in reqs, 0 if none
RequestAt(reqs, tool, filepath) ==
    IF \E k \in 1..Len(reqs) : reqs[k] = FileRequest(tool, filepath)
    THEN CHOOSE k \in 1..Len(reqs) :
            /\ reqs[k] = FileRequest(tool, filepath)
            /\ \A j \in 1..(k - 1) : reqs[j] # FileRequest(tool, filepath)
    ELSE 0

====
